---- MODULE Spec2Model ----
(***************************************************************************)
(* Ring-VRF subsystem of ffi/rust/crypto: the process-wide ring-context   *)
(* cache (ring_vrf/context.rs, and its predecessor in ring_vrf.rs) and the *)
(* Prover / Verifier / Commitment actors built on it.                      *)
(*                                                                         *)
(*   Spec        threads calling ring_vrf/context.rs ring_context          *)
(*   LegacySpec  threads calling ring_vrf.rs ring_context (unwrap-based)   *)
(*   VrfSpec     one caller using ring_vrf/{prover,verifier,commitment}.rs *)
(*   LegacyVrfSpec  one caller using the actors of ring_vrf.rs             *)
(***************************************************************************)
EXTENDS Integers, Sequences, FiniteSets, TLC

(* ------------------------------ bounds --------------------------------- *)

\* Number of threads calling into the crate concurrently.
NumThreads == 2

\* Number of ring_context calls explored after the initial state.
MaxCalls == 3

\* Number of entries of the warm initial cache (see Init).
WarmSize == 9

\* Largest ring size RingContext::from_srs accepts for the embedded SRS.
SrsMaxRingSize == 12

\* Number of key pairs the rings and provers are drawn from.
NumSecrets == 2

\* Rows of a context's evaluation domain that hold no key.
DomainOverhead == 1

(* ------------------------- program constants --------------------------- *)

RING_CONTEXT_CACHE_CAPACITY == 10

(* ------------------------------ values --------------------------------- *)

Threads == 1..NumThreads
NoThread == 0

\* Ring sizes: every supported one and one the SRS is too small for.
UnsupportedSize == SrsMaxRingSize + 1
AllSizes == 0..UnsupportedSize

\* The sizes the explored calls ask for: the least recently used entry of the
\* warm cache, two sizes the warm cache does not hold, and the unsupported one.
CallSizes == {1, WarmSize + 1, WarmSize + 2, UnsupportedSize}

NoResult == [tag |-> "None"]
Ok(v) == [tag |-> "Ok", val |-> v]
Err(e) == [tag |-> "Err", err |-> e]
Panicked == [tag |-> "Panic"]

IsOk(r) == r.tag = "Ok"
IsErr(r) == r.tag = "Err"

\* RingContextError (context.rs): the two kinds.
RingContextErrors == {"SrsCreationError", "CacheLockError"}

(* --------------------------- RingContext ------------------------------- *)

\* RingContext::from_srs(ring_size, pcs_params): a context sized to ring_size
\* over the given parameters, or an error when the SRS is too small.
FromSrs(ring_size, pcs) ==
  IF ring_size <= SrsMaxRingSize
  THEN Ok([ring_size |-> ring_size, pcs |-> pcs])
  ELSE Err("SrsCreationError")

(* ----------------- the external VRF library (ark-ec-vrfs) -------------- *)
\* Keys, points, proofs and encodings are symbolic values; Prove and Verify
\* are the ideal ones: a proof verifies exactly for the statement, key (or
\* ring) and parameters it was made for, and only if the prover held the
\* secret of a ring member at its index.

Secrets == 1..NumSecrets

\* Secret::public()
PointOf(secret) == [by |-> "secret", n |-> secret]

PublicOf(secret) == [kind |-> "public", point |-> PointOf(secret)]

\* Public::from(point)
PublicFrom(point) == [kind |-> "public", point |-> point]

\* The rings of public keys used: the first k keys in order, for every k from
\* none to all, and the last key alone.
Rings ==
  {[i \in 1..k |-> PublicOf(i)] : k \in 0..NumSecrets}
    \cup {<<PublicOf(NumSecrets)>>}

MaxRingLen == CHOOSE n \in 0..SrsMaxRingSize :
                /\ \E r \in Rings : Len(r) = n
                /\ \A r \in Rings : Len(r) <= n

\* Caller-supplied input bytes ("nopoint": bytes Input::new maps to no point)
\* and additional data.
InputData == {"a", "b", "nopoint"}
AuxData == {"x", "y"}

None == [tag |-> "None"]
Some(v) == [tag |-> "Some", val |-> v]

\* Input::new(data)
InputNew(data) ==
  IF data = "nopoint" THEN None ELSE Some([kind |-> "input", data |-> data])

\* Secret::output(input)
SecretOutput(secret, input) ==
  [kind |-> "output", secret |-> secret, input |-> input]

\* Output::hash(): 64 bytes, here its two 32-byte halves.
OutputHash(output) ==
  <<[half |-> 1, of |-> output], [half |-> 2, of |-> output]>>

\* ietf::Prover::prove / ietf::Verifier::verify
IetfProve(secret, input, output, aux) ==
  [kind |-> "ietf", signer |-> PublicOf(secret), input |-> input,
   output |-> output, aux |-> aux,
   knows |-> output = SecretOutput(secret, input)]

IetfVerify(public, input, output, aux, proof) ==
  /\ proof.kind = "ietf"
  /\ proof.signer = public
  /\ proof.input = input
  /\ proof.output = output
  /\ proof.aux = aux
  /\ proof.knows

\* The evaluation domain from_srs picks for a ring size: the least power of
\* two that holds the ring, the overhead rows and one row more. As with the
\* library's overhead, which is no power of two, the context of the empty
\* ring then has a key slot.
RECURSIVE Pow2Ceil(_, _)
Pow2Ceil(x, p) == IF p >= x THEN p ELSE Pow2Ceil(x, 2 * p)

DomainSize(ring_size) == Pow2Ceil(ring_size + DomainOverhead + 1, 1)

\* What a context consists of besides the size it was asked for: ring sizes
\* with the same domain get the same parameters.
PiopParams(ctx) == [domain |-> DomainSize(ctx.ring_size), pcs |-> ctx.pcs]

\* The key slots of a context: never fewer than the ring size it was made for.
KeysetPartSize(ctx) == DomainSize(ctx.ring_size) - DomainOverhead

\* RingContext::padding_point()
PaddingPoint(ctx) == [by |-> "padding", n |-> ctx.pcs]

\* The keys a context commits to for a ring: the ring's keys in order, then
\* the padding point in every remaining slot.
PaddedKeys(ctx, ring) ==
  [i \in 1..KeysetPartSize(ctx) |->
     IF i <= Len(ring) THEN ring[i] ELSE PublicFrom(PaddingPoint(ctx))]

\* RingContext::verifier_key(pts).commitment()
RingCommit(ctx, ring) ==
  [kind |-> "commitment", params |-> PiopParams(ctx),
   ring |-> PaddedKeys(ctx, ring)]

\* RingContext::prover_key / prover / verifier_key /
\* verifier_key_from_commitment / verifier
ProverKey(ctx, ring) == [params |-> ctx, ring |-> ring]
RingProverOf(ctx, key, idx) ==
  [params |-> PiopParams(ctx), slots |-> KeysetPartSize(ctx), key |-> key,
   idx |-> idx]
VerifierKey(ctx, ring) == [commitment |-> RingCommit(ctx, ring)]
VerifierKeyFromCommitment(ctx, commitment) == [commitment |-> commitment]
RingVerifierOf(ctx, key) == [params |-> PiopParams(ctx), key |-> key]

\* An index past the key slots of every context the rings here use.
BeyondSlots == DomainSize(MaxRingLen) - DomainOverhead

\* Randomness a ring proof may draw while it is made.
Blindings == {"r1", "r2"}

\* ring::Prover::prove / ring::Verifier::verify. The proof does not carry the
\* index or the key of its maker; blinding is the randomness it was made with.
\* The prover marks its own slot in a column of one entry per key slot: an index
\* past the last slot is an out-of-bounds write, which panics.
RingProve(secret, input, output, aux, prover, blinding) ==
  IF prover.idx >= prover.slots THEN Panicked ELSE
  [kind |-> "ring", params |-> prover.params, blinding |-> blinding,
   commitment |-> RingCommit(prover.key.params, prover.key.ring),
   input |-> input, output |-> output, aux |-> aux,
   member |-> /\ prover.idx < Len(prover.key.ring)
              /\ prover.key.ring[prover.idx + 1] = PublicOf(secret)
              /\ output = SecretOutput(secret, input)]

RingVerifyBuggy(input, output, aux, proof, verifier) ==
  /\ proof.kind = "ring"
  /\ proof.params = verifier.params
  /\ proof.commitment = verifier.key.commitment
  /\ proof.output = output
  /\ proof.aux = aux
  /\ proof.member

RingVerify(input, output, aux, proof, verifier) ==
  /\ proof.kind = "ring"
  /\ proof.params = verifier.params
  /\ proof.commitment = verifier.key.commitment
  /\ proof.input = input
  /\ proof.output = output
  /\ proof.aux = aux
  /\ proof.member

\* CanonicalSerialize::serialize_compressed of the two signature structs, and
\* CanonicalDeserialize::deserialize_compressed as each of them.
SerializeCompressed(enc, sig) ==
  Ok([enc |-> enc, fields |-> <<sig.output, sig.proof>>])

DeserializeCompressed(enc, bytes) ==
  IF bytes.enc = enc
  THEN Ok([output |-> bytes.fields[1], proof |-> bytes.fields[2]])
  ELSE Err("invalid data")

\* Bytes that decode as neither signature.
Garbage == [enc |-> "garbage", fields |-> <<>>]

(* ------------------------------ LruCache ------------------------------- *)
\* A cache is a sequence of entries, most recently used first.

Entry(k, v) == [key |-> k, ctx |-> v]

LruKeys(c) == [i \in DOMAIN c |-> c[i].key]

LruContains(c, k) == \E i \in DOMAIN c : c[i].key = k

LruIndex(c, k) == CHOOSE i \in DOMAIN c : c[i].key = k

LruRemoveAt(c, i) == SubSeq(c, 1, i - 1) \o SubSeq(c, i + 1, Len(c))

\* LruCache::get: the value under k, and the cache with k most recent.
LruGetBuggyFront(c, k) ==
  [val   |-> c[1].ctx,
   cache |-> <<c[LruIndex(c, k)]>> \o LruRemoveAt(c, LruIndex(c, k))]

LruGet(c, k) ==
  [val   |-> c[LruIndex(c, k)].ctx,
   cache |-> <<c[LruIndex(c, k)]>> \o LruRemoveAt(c, LruIndex(c, k))]

\* LruCache::put on a cache of capacity cap: k becomes the most recent entry;
\* when k is new and the cache is full, the least recent entry is dropped.
LruPutBuggyEvictMru(c, cap, k, v) ==
  IF LruContains(c, k)
  THEN <<Entry(k, v)>> \o LruRemoveAt(c, LruIndex(c, k))
  ELSE IF Len(c) >= cap
       THEN <<Entry(k, v)>> \o SubSeq(c, 2, Len(c))
       ELSE <<Entry(k, v)>> \o c

LruPut(c, cap, k, v) ==
  IF LruContains(c, k)
  THEN <<Entry(k, v)>> \o LruRemoveAt(c, LruIndex(c, k))
  ELSE IF Len(c) >= cap
       THEN <<Entry(k, v)>> \o SubSeq(c, 1, Len(c) - 1)
       ELSE <<Entry(k, v)>> \o c

(* ------------------- the guarded part of ring_context ------------------ *)
\* What ring_context does between taking the guard and dropping it, as a
\* function of the cache (with its bookkeeping) it finds. A cache state is
\* [cache, builds, used, clock, last]; the result is what the caller gets.

NoOp == [kind |-> "none", t |-> NoThread, n |-> 0, before |-> <<>>,
         evicted |-> -1, builds |-> 0]

\* The key ring_context inserts a freshly built context under.
PutKeyBuggy(ring_size) == IF ring_size > 1 THEN ring_size - 1 ELSE ring_size

PutKey(ring_size) == ring_size

\* if let Some(ctx) = cache.get(&ring_size) { Ok(ctx.clone()) }
HitOn(st, t, n) ==
  LET g == LruGet(st.cache, n) IN
    [result |-> Ok(g.val),
     st |-> [cache  |-> g.cache,
             builds |-> st.builds,
             used   |-> [st.used EXCEPT ![n] = st.clock + 1],
             clock  |-> st.clock + 1,
             last   |-> [NoOp EXCEPT !.kind = "hit", !.t = t, !.n = n,
                                     !.before = st.cache,
                                     !.builds = st.builds[n]]]]

\* from_srs succeeded: cache.put(ring_size, ctx.clone()); Ok(ctx)
MissOn(st, t, n, ctx) ==
  LET k == PutKey(n)
      c == LruPut(st.cache, RING_CONTEXT_CACHE_CAPACITY, k, ctx)
      gone == {st.cache[i].key : i \in DOMAIN st.cache}
                \ {c[i].key : i \in DOMAIN c}
  IN [result |-> Ok(ctx),
      st |-> [cache  |-> c,
              builds |-> [st.builds EXCEPT ![n] = @ + 1],
              used   |-> [st.used EXCEPT ![k] = st.clock + 1],
              clock  |-> st.clock + 1,
              last   |-> [NoOp EXCEPT !.kind = "miss", !.t = t, !.n = n,
                                      !.before = st.cache,
                                      !.evicted = IF gone = {} THEN -1
                                                  ELSE CHOOSE e \in gone : TRUE,
                                      !.builds = st.builds[n] + 1]]]

\* from_srs failed: .map_err(|_| RingContextError::SrsCreationError)?
FailOn(st, t, n) ==
  [result |-> Err("SrsCreationError"),
   st |-> [st EXCEPT !.last = [NoOp EXCEPT !.kind = "fail", !.t = t, !.n = n,
                                           !.before = st.cache]]]

(* ------------------------------- state --------------------------------- *)

\* No call through the C interface has been made.
\* (out is the caller's output memory: the buffer a function copies its bytes
\* to and the size_t it stores their number in, both as the caller left them;
\* commitment is the Commitment the caller holds, got what the last getter
\* called on an instance returned.)
NoFfiCalls ==
  [vnew |-> None, pnew |-> None, pad |-> None, again |-> None,
   out |-> [buf |-> None, len |-> None], call |-> None, pvm |-> None,
   commitment |-> None, got |-> None]

VARIABLES
  once,        \* the two OnceLock statics: [pcs, cache] -> [state, gen]
  cache,       \* contents of RING_CONTEXT_CACHE, most recently used first
  lockHolder,  \* thread holding the cache mutex, or NoThread
  poisoned,    \* the mutex was poisoned by a panic of its holder
  pc,          \* per thread: where it is inside ring_context
  arg,         \* per thread: ring_size of its current or last call
  ref,         \* per thread: generation of PCS_PARAMS and of the cache it got
  result,      \* per thread: what its last call returned
  calls,       \* ring_context calls started so far
  builds,      \* per ring size: number of contexts constructed for it
  used,        \* per ring size: logical time of its last hit or insert
  clock,       \* logical time: number of hits and inserts so far
  last,        \* the last completed cache operation
  prover,      \* the Prover in use, or None
  verifier,    \* the Verifier in use, or None
  signed,      \* the last sign call (or bytes made up by the caller), or None
  verified,    \* the last verify call, or None
  ffi          \* the calls made through the C interface so far

cacheVars == <<once, cache, lockHolder, poisoned, pc, arg, ref, result,
               calls, builds, used, clock, last>>

vrfVars == <<prover, verifier, signed, verified, ffi>>

vars == <<cacheVars, vrfVars>>

\* The cache after the sequential calls ring_context(1), ..., ring_context(w).
WarmCache(w) == [i \in 1..w |-> Entry(w + 1 - i, FromSrs(w + 1 - i, 1).val)]

Cell(state, gen) == [state |-> state, gen |-> gen]

\* Either a fresh process (nothing initialised), or one that has already made
\* the calls ring_context(1), ..., ring_context(WarmSize) one after another.
Init ==
  \E w \in {0, WarmSize} :
    /\ once = IF w = 0
              THEN [pcs |-> Cell("uninit", 0), cache |-> Cell("uninit", 0)]
              ELSE [pcs |-> Cell("ready", 1), cache |-> Cell("ready", 1)]
    /\ cache = WarmCache(w)
    /\ builds = [n \in AllSizes |-> IF n \in 1..w THEN 1 ELSE 0]
    /\ used = [n \in AllSizes |-> IF n \in 1..w THEN n ELSE 0]
    /\ clock = w
    /\ lockHolder = NoThread
    /\ poisoned = FALSE
    /\ pc = [t \in Threads |-> "idle"]
    /\ arg = [t \in Threads |-> 0]
    /\ ref = [t \in Threads |-> [pcs |-> 0, cache |-> 0]]
    /\ result = [t \in Threads |-> NoResult]
    /\ calls = 0
    /\ last = NoOp
    /\ prover = None
    /\ verifier = None
    /\ signed = None
    /\ verified = None
    /\ ffi = NoFfiCalls

(* ------------------- ring_context (ring_vrf/context.rs) ---------------- *)

\* A thread enters ring_context(n).
Call(t, n) ==
  /\ pc[t] = "idle"
  /\ calls < MaxCalls
  /\ calls' = calls + 1
  /\ pc' = [pc EXCEPT ![t] = "pcs"]
  /\ arg' = [arg EXCEPT ![t] = n]
  /\ result' = [result EXCEPT ![t] = NoResult]
  /\ ref' = [ref EXCEPT ![t] = [pcs |-> 0, cache |-> 0]]
  /\ UNCHANGED <<once, cache, lockHolder, poisoned, builds, used, clock, last>>
  /\ UNCHANGED vrfVars

\* Which static a thread at this position is in get_or_init of, and where it
\* goes when it has the value.
OnceOf(p) == IF p \in {"pcs", "pcs_init"} THEN "pcs" ELSE "cache"
AfterOnce(w) == IF w = "pcs" THEN "cachecell" ELSE "lock"

\* OnceLock::get_or_init, the value is there: return it.
OnceGet(t) ==
  /\ pc[t] \in {"pcs", "cachecell"}
  /\ LET w == OnceOf(pc[t]) IN
       /\ once[w].state = "ready"
       /\ ref' = [ref EXCEPT ![t][w] = once[w].gen]
       /\ pc' = [pc EXCEPT ![t] = AfterOnce(w)]
  /\ UNCHANGED <<once, cache, lockHolder, poisoned, arg, result, calls,
                 builds, used, clock, last>>
  /\ UNCHANGED vrfVars

\* OnceLock::get_or_init, the cell is empty: this thread becomes the one
\* initialiser; the others wait until the value is there.
OnceMayBeginRacy(cell) == cell.state \in {"uninit", "running"}

OnceMayBegin(cell) == cell.state = "uninit"

OnceBegin(t) ==
  /\ pc[t] \in {"pcs", "cachecell"}
  /\ LET w == OnceOf(pc[t]) IN
       /\ OnceMayBegin(once[w])
       /\ once' = [once EXCEPT ![w] = Cell("running", @.gen)]
       /\ pc' = [pc EXCEPT ![t] = IF w = "pcs" THEN "pcs_init" ELSE "cache_init"]
  /\ UNCHANGED <<cache, lockHolder, poisoned, arg, ref, result, calls,
                 builds, used, clock, last>>
  /\ UNCHANGED vrfVars

\* The initialiser finishes: init_pcs_params() for PCS_PARAMS, a new empty
\* LruCache behind a new Mutex for RING_CONTEXT_CACHE.
OnceEnd(t) ==
  /\ pc[t] \in {"pcs_init", "cache_init"}
  /\ LET w == OnceOf(pc[t]) IN
       /\ once' = [once EXCEPT ![w] = Cell("ready", @.gen + 1)]
       /\ ref' = [ref EXCEPT ![t][w] = once[w].gen + 1]
       /\ pc' = [pc EXCEPT ![t] = AfterOnce(w)]
       /\ IF w = "cache"
          THEN /\ cache' = <<>>
               /\ lockHolder' = NoThread
               /\ poisoned' = FALSE
          ELSE UNCHANGED <<cache, lockHolder, poisoned>>
  /\ UNCHANGED <<arg, result, calls, builds, used, clock, last>>
  /\ UNCHANGED vrfVars

\* Mutex::lock returns only when no thread holds the mutex.
MutexFreeBuggy == TRUE

MutexFree == lockHolder = NoThread

\* cache.lock().map_err(|_| CacheLockError)?: blocks while another thread holds
\* the mutex; a poisoned mutex is returned as CacheLockError.
Lock(t) ==
  /\ pc[t] = "lock"
  /\ MutexFree
  /\ IF poisoned
     THEN /\ result' = [result EXCEPT ![t] = Err("CacheLockError")]
          /\ pc' = [pc EXCEPT ![t] = "idle"]
          /\ last' = [NoOp EXCEPT !.kind = "lockerr", !.t = t, !.n = arg[t],
                                  !.before = cache]
          /\ UNCHANGED lockHolder
     ELSE /\ lockHolder' = t
          /\ pc' = [pc EXCEPT ![t] = "lookup"]
          /\ UNCHANGED <<result, last>>
  /\ UNCHANGED <<once, cache, poisoned, arg, ref, calls, builds, used, clock>>
  /\ UNCHANGED vrfVars

\* The cache with its bookkeeping, and its assignment.
CacheSt == [cache |-> cache, builds |-> builds, used |-> used,
            clock |-> clock, last |-> last]

SetCacheSt(st) ==
  /\ cache' = st.cache
  /\ builds' = st.builds
  /\ used' = st.used
  /\ clock' = st.clock
  /\ last' = st.last

\* cache.get(&ring_size) is Some: return a clone; the guard drops.
LookupHit(t) ==
  /\ pc[t] = "lookup"
  /\ lockHolder = t
  /\ LruContains(cache, arg[t])
  /\ LET r == HitOn(CacheSt, t, arg[t]) IN
       /\ SetCacheSt(r.st)
       /\ result' = [result EXCEPT ![t] = r.result]
  /\ lockHolder' = NoThread
  /\ pc' = [pc EXCEPT ![t] = "idle"]
  /\ UNCHANGED <<once, poisoned, arg, ref, calls>>
  /\ UNCHANGED vrfVars

\* cache.get(&ring_size) is None: go on to construct the context, still
\* holding the guard.
LookupMiss(t) ==
  /\ pc[t] = "lookup"
  /\ lockHolder = t
  /\ ~LruContains(cache, arg[t])
  /\ pc' = [pc EXCEPT ![t] = "build"]
  /\ UNCHANGED <<once, cache, lockHolder, poisoned, arg, ref, result, calls,
                 builds, used, clock, last>>
  /\ UNCHANGED vrfVars

\* RingContext::from_srs succeeded: cache.put(ring_size, ctx.clone()), return
\* the context; the guard drops.
BuildOk(t) ==
  /\ pc[t] = "build"
  /\ lockHolder = t
  /\ IsOk(FromSrs(arg[t], ref[t].pcs))
  /\ LET r == MissOn(CacheSt, t, arg[t], FromSrs(arg[t], ref[t].pcs).val) IN
       /\ SetCacheSt(r.st)
       /\ result' = [result EXCEPT ![t] = r.result]
  /\ lockHolder' = NoThread
  /\ pc' = [pc EXCEPT ![t] = "idle"]
  /\ UNCHANGED <<once, poisoned, arg, ref, calls>>
  /\ UNCHANGED vrfVars

\* RingContext::from_srs failed: map_err(|_| SrsCreationError)? returns the
\* error; nothing is inserted; the guard drops.
BuildFail(t) ==
  /\ pc[t] = "build"
  /\ lockHolder = t
  /\ IsErr(FromSrs(arg[t], ref[t].pcs))
  /\ LET r == FailOn(CacheSt, t, arg[t]) IN
       /\ SetCacheSt(r.st)
       /\ result' = [result EXCEPT ![t] = r.result]
  /\ lockHolder' = NoThread
  /\ pc' = [pc EXCEPT ![t] = "idle"]
  /\ UNCHANGED <<once, poisoned, arg, ref, calls>>
  /\ UNCHANGED vrfVars

Next ==
  \E t \in Threads :
    \/ \E n \in CallSizes : Call(t, n)
    \/ OnceGet(t)
    \/ OnceBegin(t)
    \/ OnceEnd(t)
    \/ Lock(t)
    \/ LookupHit(t)
    \/ LookupMiss(t)
    \/ BuildOk(t)
    \/ BuildFail(t)

Spec == Init /\ [][Next]_vars

(* ------------------ ring_context, called by one thread ----------------- *)
\* The whole of ring_context as one caller runs it with no other thread
\* inside: both get_or_init, the lock, the guarded part, the unlock. A
\* process state is [once, poisoned, st] with st the cache state.

SeqThread == 1

OnceRunBuggy(cell) == Cell("ready", cell.gen + 1)

OnceRun(cell) ==
  IF cell.state = "ready" THEN cell ELSE Cell("ready", cell.gen + 1)

ProcSt == [once |-> once, poisoned |-> poisoned, st |-> CacheSt]

SetProcSt(ps) ==
  /\ once' = ps.once
  /\ poisoned' = ps.poisoned
  /\ SetCacheSt(ps.st)

RingContextSeq(ps, n) ==
  LET o == [pcs |-> OnceRun(ps.once.pcs), cache |-> OnceRun(ps.once.cache)]
      r == IF ps.poisoned
           THEN [result |-> Err("CacheLockError"),
                 st |-> [ps.st EXCEPT !.last =
                           [NoOp EXCEPT !.kind = "lockerr", !.t = SeqThread,
                                        !.n = n, !.before = ps.st.cache]]]
           ELSE IF LruContains(ps.st.cache, n)
           THEN HitOn(ps.st, SeqThread, n)
           ELSE IF IsOk(FromSrs(n, o.pcs.gen))
           THEN MissOn(ps.st, SeqThread, n, FromSrs(n, o.pcs.gen).val)
           ELSE FailOn(ps.st, SeqThread, n)
  IN [result |-> r.result,
      path |-> r.st.last.kind,
      ps |-> [once |-> o, poisoned |-> ps.poisoned, st |-> r.st]]

(* ------------------------------ errors --------------------------------- *)
\* ProverError, VerifierError and commitment::Error values: the variant, and
\* for RingContextError the RingContextError it wraps.

TypedError(variant) == [error |-> variant, inner |-> "-"]
FromRingContextError(e) == [error |-> "RingContextError", inner |-> e]

\* vrf_input_point (types.rs)
vrf_input_point(vrf_input_data) == InputNew(vrf_input_data)

\* output.hash()[..32]
VrfOutputHashBuggy(output) == OutputHash(output)[2]

VrfOutputHash(output) == OutputHash(output)[1]

(* ------------------------------- Prover -------------------------------- *)

\* Prover::new
ProverNew(ring, prover_secret, prover_idx) ==
  [ring |-> ring, secret |-> prover_secret, prover_idx |-> prover_idx]

\* Prover::ietf_vrf_sign
IetfVrfSignBuggy(p, vrf_input_data, aux_data) ==
  LET input == vrf_input_point(vrf_input_data) IN
    IF input = None THEN Err(TypedError("VrfInputPointError"))
    ELSE LET output == SecretOutput(p.secret,
                                    [kind |-> "input",
                                     data |-> <<vrf_input_data, aux_data>>])
             proof == [IetfProve(p.secret, input.val, output, aux_data)
                         EXCEPT !.knows = TRUE]
         IN Ok(SerializeCompressed("IetfVrfSignature",
                                   [output |-> output, proof |-> proof]).val)

IetfVrfSign(p, vrf_input_data, aux_data) ==
  LET input == vrf_input_point(vrf_input_data) IN
    IF input = None THEN Err(TypedError("VrfInputPointError"))
    ELSE LET output == SecretOutput(p.secret, input.val)
             proof == IetfProve(p.secret, input.val, output, aux_data)
             buf == SerializeCompressed("IetfVrfSignature",
                                        [output |-> output, proof |-> proof])
         IN IF IsErr(buf) THEN Err(TypedError("SerializationError"))
            ELSE Ok(buf.val)

\* A call that returns r without asking ring_context for a context: the
\* process state stays as it was.
NoContextBuggy(r, ps) ==
  [result |-> r, path |-> "none", ps |-> RingContextSeq(ps, 1).ps]

NoContext(r, ps) == [result |-> r, path |-> "none", ps |-> ps]

\* Prover::ring_vrf_sign, from process state ps: [result, path, ps]
RingVrfSign(p, vrf_input_data, aux_data, blinding, ps) ==
  LET input == vrf_input_point(vrf_input_data) IN
    IF input = None
    THEN NoContext(Err(TypedError("VrfInputPointError")), ps)
    ELSE LET output == SecretOutput(p.secret, input.val)
             rc == RingContextSeq(ps, Len(p.ring))
         IN IF IsErr(rc.result)
            THEN [result |-> Err(FromRingContextError(rc.result.err)),
                  path |-> rc.path, ps |-> rc.ps]
            ELSE LET ring_ctx == rc.result.val
                     prover_key == ProverKey(ring_ctx, p.ring)
                     ring_prover == RingProverOf(ring_ctx, prover_key, p.prover_idx)
                     proof == RingProve(p.secret, input.val, output, aux_data,
                                        ring_prover, blinding)
                     buf == SerializeCompressed("RingVrfSignature",
                                                [output |-> output, proof |-> proof])
                 IN [result |-> IF proof = Panicked THEN Panicked
                                ELSE IF IsErr(buf)
                                THEN Err(TypedError("SerializationError"))
                                ELSE Ok(buf.val),
                     path |-> rc.path, ps |-> rc.ps]

(* ------------------------------ Verifier ------------------------------- *)

\* Verifier::new, from process state ps: [result, path, ps]
VerifierNew(ring, ps) ==
  LET rc == RingContextSeq(ps, Len(ring)) IN
    IF IsErr(rc.result)
    THEN [result |-> Err(FromRingContextError(rc.result.err)), path |-> rc.path,
          ps |-> rc.ps]
    ELSE [result |-> Ok([ring |-> ring,
                         commitment |-> VerifierKey(rc.result.val, ring).commitment]),
          path |-> rc.path, ps |-> rc.ps]

\* Verifier::get_commitment
GetCommitment(v) == v.commitment

\* self.ring.get(signer_key_index)
RingGetBuggy(ring, signer_key_index) ==
  IF signer_key_index < Len(ring) THEN Some(ring[1]) ELSE None

RingGet(ring, signer_key_index) ==
  IF signer_key_index < Len(ring) THEN Some(ring[signer_key_index + 1]) ELSE None

\* Verifier::ietf_vrf_verify
IetfVrfVerifyBuggy(v, vrf_input_data, aux_data, signature, signer_key_index) ==
  LET sig == DeserializeCompressed("IetfVrfSignature", signature) IN
    IF IsErr(sig) THEN Err(TypedError("DeserializationError"))
    ELSE LET input == vrf_input_point(vrf_input_data) IN
      IF input = None THEN Err(TypedError("VrfInputPointError"))
      ELSE LET public == RingGet(v.ring, signer_key_index) IN
        IF public = None THEN Err(TypedError("InvalidSignerKeyIndex"))
        ELSE IF ~IetfVerify(public.val, input.val, sig.val.output, aux_data,
                            sig.val.proof)
        THEN Err(TypedError("VerificationFailed"))
        ELSE Ok([half |-> 1, of |-> sig.val.output, aux |-> aux_data])

IetfVrfVerify(v, vrf_input_data, aux_data, signature, signer_key_index) ==
  LET sig == DeserializeCompressed("IetfVrfSignature", signature) IN
    IF IsErr(sig) THEN Err(TypedError("DeserializationError"))
    ELSE LET input == vrf_input_point(vrf_input_data) IN
      IF input = None THEN Err(TypedError("VrfInputPointError"))
      ELSE LET output == sig.val.output
               public == RingGet(v.ring, signer_key_index)
           IN IF public = None THEN Err(TypedError("InvalidSignerKeyIndex"))
              ELSE IF ~IetfVerify(public.val, input.val, output, aux_data,
                                  sig.val.proof)
              THEN Err(TypedError("VerificationFailed"))
              ELSE Ok(VrfOutputHash(output))

\* The commitment Verifier::ring_vrf_verify rebuilds the verifier key from.
VerifyCommitmentOfBuggy(v, ring_ctx) ==
  RingCommit(ring_ctx, IF v.ring = <<>> THEN v.ring ELSE Tail(v.ring))

VerifyCommitmentOf(v, ring_ctx) == v.commitment

\* Verifier::ring_vrf_verify, from process state ps: [result, path, ps]
RingVrfVerify(v, vrf_input_data, aux_data, signature, ps) ==
  LET sig == DeserializeCompressed("RingVrfSignature", signature) IN
    IF IsErr(sig)
    THEN NoContext(Err(TypedError("DeserializationError")), ps)
    ELSE LET input == vrf_input_point(vrf_input_data) IN
      IF input = None
      THEN NoContext(Err(TypedError("VrfInputPointError")), ps)
      ELSE LET output == sig.val.output
               rc == RingContextSeq(ps, Len(v.ring))
           IN IF IsErr(rc.result)
              THEN [result |-> Err(FromRingContextError(rc.result.err)),
                    path |-> rc.path, ps |-> rc.ps]
              ELSE LET ring_ctx == rc.result.val
                       verifier_key ==
                         VerifierKeyFromCommitment(ring_ctx,
                                                   VerifyCommitmentOf(v, ring_ctx))
                       ring_verifier == RingVerifierOf(ring_ctx, verifier_key)
                   IN [result |->
                         IF ~RingVerify(input.val, output, aux_data,
                                        sig.val.proof, ring_verifier)
                         THEN Err(TypedError("VerificationFailed"))
                         ELSE Ok(VrfOutputHash(output)),
                       path |-> rc.path, ps |-> rc.ps]

(* ----------------------------- Commitment ------------------------------ *)

\* Commitment::new
CommitmentNew(commitment, ring_size) ==
  [commitment |-> commitment, ring_size |-> ring_size]

\* The error Commitment::ring_vrf_verify returns for a rejected proof.
CommitmentReject == Err(TypedError("SignatureVerificationFailed"))

\* Commitment::ring_vrf_verify, from process state ps: [result, path, ps]
CommitmentRingVrfVerify(c, vrf_input_data, aux_data, signature, ps) ==
  LET sig == DeserializeCompressed("RingVrfSignature", signature) IN
    IF IsErr(sig)
    THEN NoContext(Err(TypedError("DeserializationError")), ps)
    ELSE LET input == vrf_input_point(vrf_input_data) IN
      IF input = None
      THEN NoContext(Err(TypedError("VrfInputPointError")), ps)
      ELSE LET output == sig.val.output
               rc == RingContextSeq(ps, c.ring_size)
           IN IF IsErr(rc.result)
              THEN [result |-> Err(FromRingContextError(rc.result.err)),
                    path |-> rc.path, ps |-> rc.ps]
              ELSE LET ring_ctx == rc.result.val
                       verifier_key ==
                         VerifierKeyFromCommitment(ring_ctx, c.commitment)
                       ring_verifier == RingVerifierOf(ring_ctx, verifier_key)
                   IN [result |->
                         IF ~RingVerify(input.val, output, aux_data,
                                        sig.val.proof, ring_verifier)
                         THEN CommitmentReject
                         ELSE Ok(VrfOutputHash(output)),
                       path |-> rc.path, ps |-> rc.ps]

(* --------------------------- the C interface --------------------------- *)
\* ffi.rs. A buffer of public keys is a sequence of PUBLIC_KEY_SIZE-byte
\* chunks; a pointer returned is Some(object) or None (null); a function
\* returning bool with an output buffer gives Ok(bytes written) or ReturnedFalse.

\* Public::serialize_compressed / Public::deserialize_compressed
PublicSerialize(public) == [enc |-> "public", key |-> public]

ZeroChunk == [enc |-> "zero", key |-> PublicFrom([by |-> "none", n |-> 0])]

PublicDeserialize(chunk) ==
  IF chunk.enc = "public" THEN Ok(chunk.key) ELSE Err("invalid data")

\* Secret::deserialize_compressed on SECRET_KEY_SIZE bytes
SecretSerialize(secret) == [enc |-> "secret", n |-> secret]

BadSecretBytes == [enc |-> "bad", n |-> 0]

SecretDeserialize(bytes) ==
  IF bytes.enc = "secret" THEN Ok(bytes.n) ELSE Err("invalid data")

\* RingCommitment::serialize_compressed
CommitmentSerialize(commitment) == [enc |-> "commitment", c |-> commitment]

ReturnedFalse == Err(TypedError("false"))

\* The buffers used: the first k keys in order with any of the chunks zeroed,
\* and a buffer of more chunks than any context can be built for.
KeyBuffers ==
  UNION {{[i \in 1..k |-> IF i \in bad THEN ZeroChunk
                          ELSE PublicSerialize(PublicOf(i))] :
            bad \in SUBSET (1..k)} : k \in 0..NumSecrets}
    \cup {[i \in 1..UnsupportedSize |-> ZeroChunk]}

\* PUBLIC_KEY_SIZE (types.rs): the bytes of one serialized public key
PUBLIC_KEY_SIZE == 32

\* What chunks(PUBLIC_KEY_SIZE) yields last for a buffer whose length is no
\* multiple of PUBLIC_KEY_SIZE: the remaining bytes, one fewer than a key has.
ShortChunk == [enc |-> "short", key |-> PublicFrom([by |-> "none", n |-> 0])]

ChunkLen(chunk) ==
  IF chunk.enc = "short" THEN PUBLIC_KEY_SIZE - 1 ELSE PUBLIC_KEY_SIZE

\* public_keys_len, in bytes
RECURSIVE BufferLen(_)
BufferLen(public_keys) ==
  IF public_keys = <<>> THEN 0
  ELSE ChunkLen(Head(public_keys)) + BufferLen(Tail(public_keys))

\* public_keys_len / PUBLIC_KEY_SIZE
NumKeys(public_keys) == BufferLen(public_keys) \div PUBLIC_KEY_SIZE

\* Buffers that end inside a key: the first k keys and a short chunk.
RaggedBuffers ==
  {[i \in 1..(k + 1) |-> IF i = k + 1 THEN ShortChunk
                          ELSE PublicSerialize(PublicOf(i))] :
     k \in 0..(NumSecrets - 1)}

\* chunks(PUBLIC_KEY_SIZE).map(|chunk| deserialize_compressed(chunk)
\*   .unwrap_or(Public::from(padding_point))).collect()
SubstituteBuggy(public_keys, padding_point) ==
  [i \in DOMAIN public_keys |-> PublicFrom(padding_point)]

Substitute(public_keys, padding_point) ==
  [i \in DOMAIN public_keys |->
     LET key == PublicDeserialize(public_keys[i])
     IN IF IsOk(key) THEN key.val ELSE PublicFrom(padding_point)]

\* A pointer to the object of a constructor's outcome, or null; the cache
\* path reported is that of the constructor's own ring_context call.
Boxed(path, r) ==
  [result |-> IF IsOk(r.result) THEN Some(r.result.val) ELSE None,
   path |-> path, ps |-> r.ps]

Null(rc) == [result |-> None, path |-> rc.path, ps |-> rc.ps]

\* if ring.len() != num_keys { return null } ... Verifier::new(ring)
VerifierOfRing(num_keys, ring, rc) ==
  IF Len(ring) # num_keys THEN Null(rc)
  ELSE Boxed(rc.path, VerifierNew(ring, rc.ps))

\* new_ring_vrf_verifier after its ring_context call returned rc
VerifierOfKeys(public_keys, rc) ==
  IF IsErr(rc.result) THEN Null(rc)
  ELSE VerifierOfRing(NumKeys(public_keys),
                      Substitute(public_keys, PaddingPoint(rc.result.val)), rc)

\* new_ring_vrf_verifier, from process state ps: [result, path, ps]
new_ring_vrf_verifier(public_keys, ps) ==
  VerifierOfKeys(public_keys, RingContextSeq(ps, NumKeys(public_keys)))

\* The ring slots new_ring_vrf_prover fills when a chunk does not decode.
ProverPaddingBuggy(ctx) == [by |-> "padding", n |-> ctx.pcs + 1]

ProverPadding(ctx) == PaddingPoint(ctx)

\* new_ring_vrf_prover after its ring_context call returned rc
ProverOfKeys(secret, public_keys, prover_idx, rc) ==
  IF IsErr(rc.result) THEN Null(rc)
  ELSE [result |-> Some(ProverNew(Substitute(public_keys,
                                             ProverPadding(rc.result.val)),
                                  secret, prover_idx)),
        path |-> rc.path, ps |-> rc.ps]

\* new_ring_vrf_prover, from process state ps: [result, path, ps]
new_ring_vrf_prover(secret, public_keys, prover_idx, ps) ==
  IF IsErr(SecretDeserialize(secret))
  THEN [result |-> None, path |-> "none", ps |-> ps]
  ELSE ProverOfKeys(SecretDeserialize(secret).val, public_keys, prover_idx,
                    RingContextSeq(ps, NumKeys(public_keys)))

\* match ... { Ok(bytes) => { copy; true }, Err(_) => false }
FalseOnErr(r) ==
  [r EXCEPT !.result = IF IsErr(@) THEN ReturnedFalse ELSE @]

\* vrf_sign: [result, path, ps]
vrf_sign(p, vrf_input_data, aux_data, blinding, ps) ==
  FalseOnErr(RingVrfSign(p, vrf_input_data, aux_data, blinding, ps))

\* vrf_verify: [result, path, ps]
vrf_verify(v, vrf_input_data, aux_data, signature, ps) ==
  FalseOnErr(RingVrfVerify(v, vrf_input_data, aux_data, signature, ps))

\* vrf_get_commitment
vrf_get_commitment(v) == Ok(CommitmentSerialize(GetCommitment(v)))

\* What get_padding_point writes and returns for the outcome of ring_context.
PaddingPointBytesBuggy(ctx) ==
  IF IsErr(ctx) THEN Ok(ZeroChunk)
  ELSE Ok(PublicSerialize(PublicFrom(PaddingPoint(ctx.val))))

PaddingPointBytes(ctx) ==
  IF IsErr(ctx) THEN ReturnedFalse
  ELSE Ok(PublicSerialize(PublicFrom(PaddingPoint(ctx.val))))

\* get_padding_point after its ring_context call returned rc
PaddingPointOf(rc) ==
  [result |-> PaddingPointBytes(rc.result), path |-> rc.path, ps |-> rc.ps]

\* get_padding_point, from process state ps: [result, path, ps]
get_padding_point(ring_size, ps) == PaddingPointOf(RingContextSeq(ps, ring_size))


\* ietf_vrf_sign: [result, path, ps]
ietf_vrf_sign(p, vrf_input_data, aux_data, ps) ==
  FalseOnErr(NoContext(IetfVrfSign(p, vrf_input_data, aux_data), ps))

\* ietf_vrf_verify: [result, path, ps]
ietf_vrf_verify(v, vrf_input_data, aux_data, signature, signer_key_index, ps) ==
  FalseOnErr(NoContext(IetfVrfVerify(v, vrf_input_data, aux_data, signature,
                                     signer_key_index), ps))

\* RingCommitment::deserialize_compressed of the caller's 144 bytes
NoCommitmentBytes == [enc |-> "garbage", c |-> <<>>]

\* (the ark-serialize error is written with the fields of the crate's errors)
CommitmentDeserialize(bytes) ==
  IF bytes.enc = "commitment" THEN Ok(bytes.c)
  ELSE Err([error |-> "InvalidData", inner |-> "-"])

\* match deserialize_compressed(commitment_slice) { .., Err(_) => return false }
AgainstDecoded(commitment, ring_size, vrf_input_data, aux_data, signature, ps) ==
  IF IsErr(commitment) THEN NoContext(ReturnedFalse, ps)
  ELSE FalseOnErr(CommitmentRingVrfVerify(
                    CommitmentNew(commitment.val, ring_size),
                    vrf_input_data, aux_data, signature, ps))

\* vrf_verify_ring_signature_against_commitment: [result, path, ps]
vrf_verify_ring_signature_against_commitment(commitment, ring_size, vrf_input_data, aux_data, signature, ps) ==
  AgainstDecoded(CommitmentDeserialize(commitment), ring_size, vrf_input_data,
                 aux_data, signature, ps)

\* debug_assert!(public_keys_len % PUBLIC_KEY_SIZE == 0): with debug
\* assertions compiled in, a constructor given any other length panics
\* before it does anything; r is what the rest of the constructor does.
DebugAsserted(public_keys, debug_assertions, ps, r) ==
  IF debug_assertions /\ BufferLen(public_keys) % PUBLIC_KEY_SIZE # 0
  THEN NoContext(Panicked, ps)
  ELSE r

\* The pointer a constructor call gave its caller (none when it panicked).
HandleOf(r) == IF r.result = Panicked THEN None ELSE r.result

\* Lengths of the compressed encodings: an Output is one curve point, an
\* IetfProof two scalars of the same length, a RingCommitment is copied as
\* 144 bytes, and a ring signature is asserted to be 784 bytes whatever the ring.
OUTPUT_LENGTH == 32

SIGNATURE_LENGTH == 96

RING_SIGNATURE_LENGTH == 784

COMMITMENT_LENGTH == 144

IetfProofLen(proof) == SIGNATURE_LENGTH - OUTPUT_LENGTH

RingProofLenBuggy(proof) ==
  RING_SIGNATURE_LENGTH - OUTPUT_LENGTH + proof.params.domain

RingProofLen(proof) == RING_SIGNATURE_LENGTH - OUTPUT_LENGTH

\* Vec::len() of serialized bytes
EncodedLen(bytes) ==
  CASE bytes.enc = "RingVrfSignature" ->
         OUTPUT_LENGTH + RingProofLen(bytes.fields[2])
    [] bytes.enc = "IetfVrfSignature" ->
         OUTPUT_LENGTH + IetfProofLen(bytes.fields[2])
    [] bytes.enc = "commitment" -> COMMITMENT_LENGTH
    [] bytes.enc \in {"public", "zero"} -> PUBLIC_KEY_SIZE
    [] bytes.enc = "short" -> PUBLIC_KEY_SIZE - 1
    [] OTHER -> 0

\* Ok(signature) => { copy_nonoverlapping(.., signature_out, size);
\*                    *signature_size_out = size; true }, Err(_) => false
WriteSizedBuggy(out, r) ==
  IF IsOk(r) THEN [buf |-> Some(r.val), len |-> Some(EncodedLen(r.val))]
  ELSE [buf |-> out.buf, len |-> Some(0)]

WriteSized(out, r) ==
  IF IsOk(r) THEN [buf |-> Some(r.val), len |-> Some(EncodedLen(r.val))]
  ELSE out

\* Ok(output_hash) => { copy_nonoverlapping(.., output_hash_out, ..); true }
WriteHash(out, r) ==
  IF IsOk(r) THEN [out EXCEPT !.buf = Some(r.val)] ELSE out

\* Ok(result) => { copy_nonoverlapping(.., output, 32); *output_len = 32; true }
WriteHashAndLen(out, r) ==
  IF IsOk(r) THEN [buf |-> Some(r.val), len |-> Some(OUTPUT_LENGTH)] ELSE out

\* The bool a function returned: true on the Ok arm, false on the Err arm.
ReturnedBool(r) == IsOk(r)

(* --------------------- ring_context (ring_vrf.rs) ---------------------- *)
\* The earlier module keeps the same two statics and the same get / put code;
\* it differs where context.rs maps an error: it unwraps.

\* cache.lock().unwrap(): a poisoned mutex panics the caller.
LegacyLock(t) ==
  /\ pc[t] = "lock"
  /\ lockHolder = NoThread
  /\ IF poisoned
     THEN /\ result' = [result EXCEPT ![t] = Panicked]
          /\ pc' = [pc EXCEPT ![t] = "panicked"]
          /\ last' = [NoOp EXCEPT !.kind = "panic", !.t = t, !.n = arg[t],
                                  !.before = cache]
          /\ UNCHANGED lockHolder
     ELSE /\ lockHolder' = t
          /\ pc' = [pc EXCEPT ![t] = "lookup"]
          /\ UNCHANGED <<result, last>>
  /\ UNCHANGED <<once, cache, poisoned, arg, ref, calls, builds, used, clock>>
  /\ UNCHANGED vrfVars

\* RingContext::from_srs(..).unwrap() on an error: the thread panics while it
\* holds the guard; unwinding drops the guard and poisons the mutex.
LegacyBuildPanic(t) ==
  /\ pc[t] = "build"
  /\ lockHolder = t
  /\ IsErr(FromSrs(arg[t], ref[t].pcs))
  /\ result' = [result EXCEPT ![t] = Panicked]
  /\ pc' = [pc EXCEPT ![t] = "panicked"]
  /\ last' = [NoOp EXCEPT !.kind = "panic", !.t = t, !.n = arg[t],
                          !.before = cache]
  /\ lockHolder' = NoThread
  /\ poisoned' = TRUE
  /\ UNCHANGED <<once, cache, arg, ref, calls, builds, used, clock>>
  /\ UNCHANGED vrfVars

LegacyNext ==
  \E t \in Threads :
    \/ \E n \in CallSizes : Call(t, n)
    \/ OnceGet(t)
    \/ OnceBegin(t)
    \/ OnceEnd(t)
    \/ LegacyLock(t)
    \/ LookupHit(t)
    \/ LookupMiss(t)
    \/ BuildOk(t)
    \/ LegacyBuildPanic(t)

LegacySpec == Init /\ [][LegacyNext]_vars

(* -------------------- signing and verifying (ring_vrf/) ---------------- *)
\* One caller makes a Prover and a Verifier, signs (or makes up signature
\* bytes), and verifies; between these it may use ring_context for other
\* ring sizes. The threads of the specification above stay idle.

threadVars == <<lockHolder, pc, arg, ref, result, calls>>

SignedRec(op, data, aux, res, path, by) ==
  Some([op |-> op, data |-> data, aux |-> aux, result |-> res, path |-> path,
        by |-> by])

VerifiedRec(op, data, aux, idx, ring_size, bytes, res, path) ==
  Some([op |-> op, data |-> data, aux |-> aux, idx |-> idx,
        ring_size |-> ring_size, bytes |-> bytes, result |-> res,
        path |-> path])

\* A method that takes &self leaves the instance it is called on as it is.
SharedBorrowBuggy(instance) == None

SharedBorrow(instance) == instance

\* The Prover and the Verifier after a call of one of their methods.
InstancesKept ==
  /\ prover' = SharedBorrow(prover)
  /\ verifier' = SharedBorrow(verifier)

\* Prover::new(ring, secret, idx): idx a position inside the ring, or (with
\* the first secret) the first position after it or a position past the last
\* key slot
NewProver(ring, secret, idx) ==
  /\ prover = None
  /\ IF idx < Len(ring) THEN TRUE
     ELSE secret = 1 /\ idx \in {Len(ring), BeyondSlots}
  /\ prover' = Some(ProverNew(ring, secret, idx))
  /\ UNCHANGED <<cacheVars, verifier, signed, verified, ffi>>

\* Verifier::new(ring)
NewVerifier(ring) ==
  /\ verifier = None
  /\ LET r == VerifierNew(ring, ProcSt) IN
       /\ verifier' = IF IsOk(r.result) THEN Some(r.result.val) ELSE None
       /\ SetProcSt(r.ps)
  /\ UNCHANGED <<threadVars, prover, signed, verified, ffi>>

\* prover.ring_vrf_sign(data, aux)
SignRing(data, aux, blinding) ==
  /\ prover # None
  /\ signed = None
  /\ LET r == RingVrfSign(prover.val, data, aux, blinding, ProcSt) IN
       /\ signed' = SignedRec("ring", data, aux, r.result, r.path, "prover")
       /\ SetProcSt(r.ps)
  /\ InstancesKept
  /\ UNCHANGED <<threadVars, verified, ffi>>

\* prover.ietf_vrf_sign(data, aux)
SignIetf(data, aux) ==
  /\ prover # None
  /\ signed = None
  /\ signed' = SignedRec("ietf", data, aux, IetfVrfSign(prover.val, data, aux),
                         "none", "prover")
  /\ InstancesKept
  /\ UNCHANGED <<cacheVars, verified, ffi>>

\* The caller makes up bytes that are no signature at all.
Forge ==
  /\ signed = None
  /\ signed' = SignedRec("none", "a", "x", Ok(Garbage), "none", "caller")
  /\ UNCHANGED <<cacheVars, prover, verifier, verified, ffi>>

\* The caller replaces the output inside a signature by the output of the
\* same secret for another input; the proof bytes stay.
OtherInput(input) ==
  CHOOSE i \in {InputNew(d).val : d \in InputData \ {"nopoint"}} : i # input

Tamper ==
  /\ signed # None
  /\ signed.val.by = "prover"
  /\ IsOk(signed.val.result)
  /\ LET bytes == signed.val.result.val
         out == bytes.fields[1]
         bad == SecretOutput(out.secret, OtherInput(out.input))
     IN signed' = Some([signed.val EXCEPT
                          !.result = Ok([bytes EXCEPT !.fields[1] = bad]),
                          !.by = "caller"])
  /\ UNCHANGED <<cacheVars, prover, verifier, verified, ffi>>

\* Between signing and verifying: ring_context for
\* RING_CONTEXT_CACHE_CAPACITY ring sizes above those of the rings, one call
\* after another; afterwards the cache holds none of the contexts the Prover
\* and the Verifier used.
ChurnSizes == (MaxRingLen + 1)..(MaxRingLen + RING_CONTEXT_CACHE_CAPACITY)

RECURSIVE RunAll(_, _, _)
RunAll(ps, n, hi) ==
  IF n > hi THEN ps ELSE RunAll(RingContextSeq(ps, n).ps, n + 1, hi)

Churn ==
  /\ verifier # None
  /\ signed # None
  /\ verified = None
  /\ \E i \in DOMAIN cache : cache[i].key <= MaxRingLen
  /\ SetProcSt(RunAll(ProcSt, MaxRingLen + 1,
                      MaxRingLen + RING_CONTEXT_CACHE_CAPACITY))
  /\ UNCHANGED <<threadVars, vrfVars>>

CanVerify ==
  /\ verifier # None
  /\ signed # None
  /\ signed.val.op # "bandersnatch"
  /\ IsOk(signed.val.result)
  /\ verified = None

\* The verifier is given the signed input or the signed additional data (or
\* both): at most one of the two differs from what was signed.
NearSigned(data, aux) ==
  IF data = signed.val.data THEN TRUE ELSE aux = signed.val.aux

\* verifier.ring_vrf_verify(data, aux, bytes)
VerifyRing(data, aux) ==
  /\ CanVerify
  /\ NearSigned(data, aux)
  /\ LET bytes == signed.val.result.val
         r == RingVrfVerify(verifier.val, data, aux, bytes, ProcSt)
     IN /\ verified' = VerifiedRec("ring", data, aux, 0, Len(verifier.val.ring),
                                   bytes, r.result, r.path)
        /\ SetProcSt(r.ps)
  /\ InstancesKept
  /\ UNCHANGED <<threadVars, signed, ffi>>

\* verifier.ietf_vrf_verify(data, aux, bytes, idx)
VerifyIetf(data, aux, idx) ==
  /\ CanVerify
  /\ NearSigned(data, aux)
  /\ signed.val.op # "ring"
  /\ LET bytes == signed.val.result.val IN
       verified' = VerifiedRec("ietf", data, aux, idx, Len(verifier.val.ring),
                               bytes,
                               IetfVrfVerify(verifier.val, data, aux, bytes, idx),
                               "none")
  /\ InstancesKept
  /\ UNCHANGED <<cacheVars, signed, ffi>>

\* Commitment::new(verifier.get_commitment(), ring_size).ring_vrf_verify(..)
\* with the size of the verifier's ring, with a size no context exists for,
\* or (for the message that was signed) with the next size
VerifyCommitment(data, aux, ring_size) ==
  /\ CanVerify
  /\ NearSigned(data, aux)
  /\ IF ring_size = Len(verifier.val.ring) + 1
     THEN data = signed.val.data /\ aux = signed.val.aux
     ELSE ring_size \in {Len(verifier.val.ring), UnsupportedSize}
  /\ LET bytes == signed.val.result.val
         c == CommitmentNew(GetCommitment(verifier.val), ring_size)
         r == CommitmentRingVrfVerify(c, data, aux, bytes, ProcSt)
     IN /\ verified' = VerifiedRec("commitment", data, aux, 0, ring_size, bytes,
                                   r.result, r.path)
        /\ SetProcSt(r.ps)
  /\ UNCHANGED <<threadVars, prover, verifier, signed, ffi>>

VrfInit == Init /\ clock = 0

VrfNext ==
  \/ \E ring \in Rings, secret \in Secrets, idx \in 0..BeyondSlots :
       NewProver(ring, secret, idx)
  \/ \E ring \in Rings : NewVerifier(ring)
  \/ \E data \in InputData, aux \in AuxData, blinding \in Blindings :
       SignRing(data, aux, blinding)
  \/ \E data \in InputData, aux \in AuxData : SignIetf(data, aux)
  \/ Forge
  \/ Tamper
  \/ Churn
  \/ \E data \in InputData, aux \in AuxData : VerifyRing(data, aux)
  \/ \E data \in InputData, aux \in AuxData, idx \in 0..MaxRingLen :
       VerifyIetf(data, aux, idx)
  \/ \E data \in InputData, aux \in AuxData, ring_size \in AllSizes :
       VerifyCommitment(data, aux, ring_size)

VrfSpec == VrfInit /\ [][VrfNext]_vars

(* ------------------- the C interface, one caller ----------------------- *)
\* The ring sizes get_padding_point is asked about: those of the rings with
\* a slot to fill, and one no context exists for.
FfiSizes == (1..MaxRingLen) \cup {UnsupportedSize}

SecretBuffers == {SecretSerialize(s) : s \in Secrets} \cup {BadSecretBytes}

\* The Verifier pointer and the process state a constructor call left.
VerifierMade(public_keys, debug_assertions, r) ==
  /\ verifier' = HandleOf(r)
  /\ ffi' = [ffi EXCEPT !.vnew = Some([keys |-> public_keys, path |-> r.path,
                                       built |-> r.ps.st.builds[Len(public_keys)],
                                       debug_assertions |-> debug_assertions,
                                       result |-> r.result])]
  /\ SetProcSt(r.ps)

\* new_ring_vrf_verifier(public_keys), the first call of a process built
\* with or without debug assertions
FfiNewVerifier(public_keys, debug_assertions) ==
  /\ ffi.vnew = None
  /\ VerifierMade(public_keys, debug_assertions,
                  DebugAsserted(public_keys, debug_assertions, ProcSt,
                                new_ring_vrf_verifier(public_keys, ProcSt)))
  /\ UNCHANGED <<threadVars, prover, signed, verified>>

\* The Prover pointer and the process state a constructor call left.
ProverMade(secret, public_keys, prover_idx, r) ==
  /\ prover' = HandleOf(r)
  /\ ffi' = [ffi EXCEPT !.pnew = Some([keys |-> public_keys, secret |-> secret,
                                       prover_idx |-> prover_idx,
                                       path |-> r.path, result |-> r.result])]
  /\ SetProcSt(r.ps)

\* new_ring_vrf_prover(secret, public_keys, prover_idx) on the buffer the
\* verifier was made from, for the owner of the key at prover_idx or with
\* bytes that are no secret; a panic of the earlier call ended the process
FfiNewProver(secret, prover_idx) ==
  /\ ffi.vnew # None
  /\ ffi.pnew = None
  /\ ffi.vnew.val.result # Panicked
  /\ IF prover_idx = 0
     THEN secret \in {SecretSerialize(1), BadSecretBytes}
     ELSE /\ secret = SecretSerialize(prover_idx + 1)
          /\ prover_idx < Len(ffi.vnew.val.keys)
  /\ ProverMade(secret, ffi.vnew.val.keys, prover_idx,
                DebugAsserted(ffi.vnew.val.keys, ffi.vnew.val.debug_assertions,
                              ProcSt,
                              new_ring_vrf_prover(secret, ffi.vnew.val.keys,
                                                  prover_idx, ProcSt)))
  /\ UNCHANGED <<threadVars, verifier, signed, verified>>

PadCall(ring_size, r) ==
  Some([ring_size |-> ring_size, path |-> r.path,
        built |-> r.ps.st.builds[ring_size], result |-> r.result])

\* What a get_padding_point call left: the call recorded as first or second.
PaddingGot(field, ring_size, r) ==
  /\ ffi' = [ffi EXCEPT ![field] = PadCall(ring_size, r)]
  /\ SetProcSt(r.ps)

\* get_padding_point(ring_size), the first call
FfiGetPaddingPoint(ring_size) ==
  /\ ffi.pad = None
  /\ signed = None
  /\ PaddingGot("pad", ring_size, get_padding_point(ring_size, ProcSt))
  /\ UNCHANGED <<threadVars, prover, verifier, signed, verified>>

\* get_padding_point for the same ring size, later
FfiGetPaddingPointAgain ==
  /\ ffi.pad # None
  /\ ffi.again = None
  /\ signed = None
  /\ PaddingGot("again", ffi.pad.val.ring_size,
                get_padding_point(ffi.pad.val.ring_size, ProcSt))
  /\ UNCHANGED <<threadVars, prover, verifier, signed, verified>>

\* Before anything is signed, other callers ask for
\* RING_CONTEXT_CACHE_CAPACITY larger ring sizes: the cache then holds none of
\* the contexts built for this caller.
FfiEvict ==
  /\ signed = None
  /\ \E i \in DOMAIN cache : cache[i].key <= MaxRingLen
  /\ SetProcSt(RunAll(ProcSt, MaxRingLen + 1,
                      MaxRingLen + RING_CONTEXT_CACHE_CAPACITY))
  /\ UNCHANGED <<threadVars, vrfVars>>

\* A call of a bool function as its caller saw it: what the operation it
\* wraps returned, the bool that came back, and the caller's output memory
\* before and after the call.
Called(fn, wrapped, r, out) ==
  ffi' = [ffi EXCEPT !.out = out,
                     !.call = Some([fn |-> fn, wrapped |-> wrapped,
                                    returned |-> ReturnedBool(r.result),
                                    result |-> r.result, path |-> r.path,
                                    before |-> ffi.out, after |-> out])]

\* The signature and the process state a vrf_sign or ietf_vrf_sign call left.
SignatureMade(fn, op, data, aux, wrapped, r) ==
  /\ signed' = SignedRec(op, data, aux, r.result, r.path, "prover")
  /\ Called(fn, wrapped, r, WriteSized(ffi.out, r.result))
  /\ SetProcSt(r.ps)

\* vrf_sign(prover, vrf_input_data, aux_data, signature_out, signature_size_out)
FfiSign(data, aux) ==
  /\ prover # None
  /\ signed = None
  /\ SignatureMade("vrf_sign", "ring", data, aux,
                   RingVrfSign(prover.val, data, aux, "r1", ProcSt).result,
                   vrf_sign(prover.val, data, aux, "r1", ProcSt))
  /\ UNCHANGED <<threadVars, prover, verifier, verified>>

\* ietf_vrf_sign(prover, vrf_input_data, aux_data, signature_out,
\*               signature_size_out)
FfiIetfSign(data, aux) ==
  /\ prover # None
  /\ signed = None
  /\ SignatureMade("ietf_vrf_sign", "ietf", data, aux,
                   IetfVrfSign(prover.val, data, aux),
                   ietf_vrf_sign(prover.val, data, aux, ProcSt))
  /\ UNCHANGED <<threadVars, prover, verifier, verified>>

\* The answer and the process state a verifying call left.
SignatureChecked(fn, op, data, aux, idx, ring_size, bytes, wrapped, r, out) ==
  /\ verified' = VerifiedRec(op, data, aux, idx, ring_size, bytes, r.result,
                             r.path)
  /\ Called(fn, wrapped, r, out)
  /\ SetProcSt(r.ps)

\* vrf_verify(verifier, vrf_input_data, aux_data, signature, output_hash_out)
VrfVerified(data, aux, bytes, wrapped, r) ==
  SignatureChecked("vrf_verify", "ring", data, aux, 0, Len(verifier.val.ring),
                   bytes, wrapped, r, WriteHash(ffi.out, r.result))

FfiVerify(data, aux) ==
  /\ CanVerify
  /\ VrfVerified(data, aux, signed.val.result.val,
                 RingVrfVerify(verifier.val, data, aux, signed.val.result.val,
                               ProcSt).result,
                 vrf_verify(verifier.val, data, aux, signed.val.result.val,
                            ProcSt))
  /\ UNCHANGED <<threadVars, prover, verifier, signed>>

\* ietf_vrf_verify(verifier, vrf_input_data, aux_data, signature,
\*                 signer_key_index, output, output_len)
IetfVrfVerified(data, aux, idx, bytes, wrapped, r) ==
  SignatureChecked("ietf_vrf_verify", "ietf", data, aux, idx,
                   Len(verifier.val.ring), bytes, wrapped, r,
                   WriteHashAndLen(ffi.out, r.result))

FfiIetfVerify(data, aux, idx) ==
  /\ CanVerify
  /\ IetfVrfVerified(data, aux, idx, signed.val.result.val,
                     IetfVrfVerify(verifier.val, data, aux,
                                   signed.val.result.val, idx),
                     ietf_vrf_verify(verifier.val, data, aux,
                                     signed.val.result.val, idx, ProcSt))
  /\ UNCHANGED <<threadVars, prover, verifier, signed>>

\* What the operations wrapped by
\* vrf_verify_ring_signature_against_commitment returned: the decoding error,
\* or the outcome of Commitment::ring_vrf_verify.
AgainstWrapped(commitment, ring_size, data, aux, bytes, ps) ==
  IF IsErr(CommitmentDeserialize(commitment))
  THEN CommitmentDeserialize(commitment)
  ELSE CommitmentRingVrfVerify(
         CommitmentNew(CommitmentDeserialize(commitment).val, ring_size),
         data, aux, bytes, ps).result

AgainstVerified(data, aux, ring_size, bytes, wrapped, r) ==
  SignatureChecked("vrf_verify_ring_signature_against_commitment",
                   "commitment", data, aux, 0, ring_size, bytes, wrapped, r,
                   WriteHash(ffi.out, r.result))

\* vrf_verify_ring_signature_against_commitment(commitment, ring_size, ..)
\* with the bytes vrf_get_commitment wrote for the verifier, or with bytes
\* that are no commitment
CallerCommitment(decodes) ==
  IF decodes THEN vrf_get_commitment(verifier.val).val ELSE NoCommitmentBytes

FfiVerifyAgainstCommitment(decodes, data, aux) ==
  /\ CanVerify
  /\ AgainstVerified(data, aux, Len(verifier.val.ring), signed.val.result.val,
                     AgainstWrapped(CallerCommitment(decodes),
                                    Len(verifier.val.ring), data, aux,
                                    signed.val.result.val, ProcSt),
                     vrf_verify_ring_signature_against_commitment(
                       CallerCommitment(decodes), Len(verifier.val.ring), data,
                       aux, signed.val.result.val, ProcSt))
  /\ UNCHANGED <<threadVars, prover, verifier, signed>>

FfiNext ==
  \/ \E public_keys \in KeyBuffers : FfiNewVerifier(public_keys, FALSE)
  \/ \E secret \in SecretBuffers, prover_idx \in 0..MaxRingLen :
       FfiNewProver(secret, prover_idx)
  \/ \E ring_size \in FfiSizes : FfiGetPaddingPoint(ring_size)
  \/ FfiGetPaddingPointAgain
  \/ FfiEvict
  \/ \E data \in {"a", "nopoint"} : FfiSign(data, "x")
  \/ \E data \in {"a", "b"} : FfiVerify(data, "x")

FfiSpec == VrfInit /\ [][FfiNext]_vars

\* Every function of the C interface that returns a bool or a pointer, with
\* buffers of any length and in builds with and without debug assertions.
BoundaryNext ==
  \/ \E public_keys \in KeyBuffers \cup RaggedBuffers,
        debug_assertions \in BOOLEAN :
       FfiNewVerifier(public_keys, debug_assertions)
  \/ \E secret \in SecretBuffers, prover_idx \in 0..MaxRingLen :
       FfiNewProver(secret, prover_idx)
  \/ \E data \in {"a", "nopoint"} : FfiSign(data, "x")
  \/ \E data \in {"a", "nopoint"} : FfiIetfSign(data, "x")
  \/ Forge
  \/ \E data \in InputData : FfiVerify(data, "x")
  \/ \E data \in InputData, idx \in 0..MaxRingLen :
       FfiIetfVerify(data, "x", idx)
  \/ \E decodes \in BOOLEAN, data \in InputData :
       FfiVerifyAgainstCommitment(decodes, data, "x")

BoundarySpec == VrfInit /\ [][BoundaryNext]_vars

(* ------------------- signing and verifying (ring_vrf.rs) --------------- *)
\* The earlier module's Prover and Verifier: the same steps, with unwrap()
\* and slice indexing where ring_vrf/ returns an error. A panic ends the call
\* with no value.

\* ring_context of ring_vrf.rs, called by one thread
LegacyRingContextSeq(ps, n) ==
  LET o == [pcs |-> OnceRun(ps.once.pcs), cache |-> OnceRun(ps.once.cache)]
      panic == [NoOp EXCEPT !.kind = "panic", !.t = SeqThread, !.n = n,
                            !.before = ps.st.cache]
  IN IF ps.poisoned
     THEN [result |-> Panicked, path |-> "panic",
           ps |-> [once |-> o, poisoned |-> TRUE,
                   st |-> [ps.st EXCEPT !.last = panic]]]
     ELSE IF LruContains(ps.st.cache, n)
     THEN LET r == HitOn(ps.st, SeqThread, n) IN
            [result |-> r.result, path |-> "hit",
             ps |-> [once |-> o, poisoned |-> FALSE, st |-> r.st]]
     ELSE IF IsOk(FromSrs(n, o.pcs.gen))
     THEN LET r == MissOn(ps.st, SeqThread, n, FromSrs(n, o.pcs.gen).val) IN
            [result |-> r.result, path |-> "miss",
             ps |-> [once |-> o, poisoned |-> FALSE, st |-> r.st]]
     ELSE [result |-> Panicked, path |-> "panic",
           ps |-> [once |-> o, poisoned |-> TRUE,
                   st |-> [ps.st EXCEPT !.last = panic]]]

\* Prover::ring_vrf_sign of ring_vrf.rs: [result, path, ps]
LegacyRingVrfSign(p, vrf_input_data, aux_data, blinding, ps) ==
  LET input == InputNew(vrf_input_data) IN
    IF input = None
    THEN [result |-> Panicked, path |-> "none", ps |-> ps]
    ELSE LET output == SecretOutput(p.secret, input.val)
             rc == LegacyRingContextSeq(ps, Len(p.ring))
         IN IF ~IsOk(rc.result)
            THEN [result |-> Panicked, path |-> rc.path, ps |-> rc.ps]
            ELSE LET ring_ctx == rc.result.val
                     prover_key == ProverKey(ring_ctx, p.ring)
                     ring_prover == RingProverOf(ring_ctx, prover_key, p.prover_idx)
                     proof == RingProve(p.secret, input.val, output, aux_data,
                                        ring_prover, blinding)
                 IN [result |-> IF proof = Panicked THEN Panicked
                                ELSE Ok(SerializeCompressed("RingVrfSignature",
                                          [output |-> output, proof |-> proof]).val),
                     path |-> rc.path, ps |-> rc.ps]

\* Prover::ietf_vrf_sign of ring_vrf.rs
LegacyIetfVrfSign(p, vrf_input_data, aux_data) ==
  LET input == InputNew(vrf_input_data) IN
    IF input = None THEN Panicked
    ELSE LET output == SecretOutput(p.secret, input.val)
             proof == IetfProve(p.secret, input.val, output, aux_data)
         IN Ok(SerializeCompressed("IetfVrfSignature",
                                   [output |-> output, proof |-> proof]).val)

\* Verifier::new of ring_vrf.rs: [result, path, ps]
LegacyVerifierNew(ring, ps) ==
  LET rc == LegacyRingContextSeq(ps, Len(ring)) IN
    IF ~IsOk(rc.result)
    THEN [result |-> Panicked, path |-> rc.path, ps |-> rc.ps]
    ELSE [result |-> Ok([ring |-> ring,
                         commitment |-> VerifierKey(rc.result.val, ring).commitment]),
          path |-> rc.path, ps |-> rc.ps]

\* Verifier::ring_vrf_verify of ring_vrf.rs: [result, path, ps]
LegacyRingVrfVerify(v, vrf_input_data, aux_data, signature, ps) ==
  LET sig == DeserializeCompressed("RingVrfSignature", signature) IN
    IF IsErr(sig)
    THEN [result |-> Panicked, path |-> "none", ps |-> ps]
    ELSE LET input == InputNew(vrf_input_data) IN
      IF input = None
      THEN [result |-> Panicked, path |-> "none", ps |-> ps]
      ELSE LET output == sig.val.output
               rc == LegacyRingContextSeq(ps, Len(v.ring))
           IN IF ~IsOk(rc.result)
              THEN [result |-> Panicked, path |-> rc.path, ps |-> rc.ps]
              ELSE LET ring_ctx == rc.result.val
                       verifier_key ==
                         VerifierKeyFromCommitment(ring_ctx, v.commitment)
                       ring_verifier == RingVerifierOf(ring_ctx, verifier_key)
                   IN [result |->
                         IF ~RingVerify(input.val, output, aux_data,
                                        sig.val.proof, ring_verifier)
                         THEN Err(TypedError("()"))
                         ELSE Ok(VrfOutputHash(output)),
                       path |-> rc.path, ps |-> rc.ps]

\* Verifier::ietf_vrf_verify of ring_vrf.rs
LegacyIetfVrfVerify(v, vrf_input_data, aux_data, signature, signer_key_index) ==
  LET sig == DeserializeCompressed("IetfVrfSignature", signature) IN
    IF IsErr(sig) THEN Panicked
    ELSE LET input == InputNew(vrf_input_data) IN
      IF input = None THEN Panicked
      ELSE IF signer_key_index >= Len(v.ring) THEN Panicked
      ELSE LET output == sig.val.output
               public == v.ring[signer_key_index + 1]
           IN IF ~IetfVerify(public, input.val, output, aux_data, sig.val.proof)
              THEN Err(TypedError("()"))
              ELSE Ok(VrfOutputHash(output))

LegacyNewVerifier(ring) ==
  /\ verifier = None
  /\ LET r == LegacyVerifierNew(ring, ProcSt) IN
       /\ verifier' = IF IsOk(r.result) THEN Some(r.result.val) ELSE None
       /\ SetProcSt(r.ps)
  /\ UNCHANGED <<threadVars, prover, signed, verified, ffi>>

LegacySignRing(data, aux, blinding) ==
  /\ prover # None
  /\ signed = None
  /\ LET r == LegacyRingVrfSign(prover.val, data, aux, blinding, ProcSt) IN
       /\ signed' = SignedRec("ring", data, aux, r.result, r.path, "prover")
       /\ SetProcSt(r.ps)
  /\ UNCHANGED <<threadVars, prover, verifier, verified, ffi>>

LegacySignIetf(data, aux) ==
  /\ prover # None
  /\ signed = None
  /\ signed' = SignedRec("ietf", data, aux,
                         LegacyIetfVrfSign(prover.val, data, aux),
                         "none", "prover")
  /\ UNCHANGED <<cacheVars, prover, verifier, verified, ffi>>

LegacyVerifyRing(data, aux) ==
  /\ CanVerify
  /\ NearSigned(data, aux)
  /\ LET bytes == signed.val.result.val
         r == LegacyRingVrfVerify(verifier.val, data, aux, bytes, ProcSt)
     IN /\ verified' = VerifiedRec("ring", data, aux, 0, Len(verifier.val.ring),
                                   bytes, r.result, r.path)
        /\ SetProcSt(r.ps)
  /\ UNCHANGED <<threadVars, prover, verifier, signed, ffi>>

LegacyVerifyIetf(data, aux, idx) ==
  /\ CanVerify
  /\ NearSigned(data, aux)
  /\ signed.val.op # "ring"
  /\ LET bytes == signed.val.result.val IN
       verified' = VerifiedRec("ietf", data, aux, idx, Len(verifier.val.ring),
                               bytes,
                               LegacyIetfVrfVerify(verifier.val, data, aux,
                                                   bytes, idx),
                               "none")
  /\ UNCHANGED <<cacheVars, prover, verifier, signed, ffi>>

LegacyVrfNext ==
  \/ \E ring \in Rings, secret \in Secrets, idx \in 0..BeyondSlots :
       NewProver(ring, secret, idx)
  \/ \E ring \in Rings : LegacyNewVerifier(ring)
  \/ \E data \in InputData, aux \in AuxData, blinding \in Blindings :
       LegacySignRing(data, aux, blinding)
  \/ \E data \in InputData, aux \in AuxData : LegacySignIetf(data, aux)
  \/ Forge
  \/ Tamper
  \/ \E data \in InputData, aux \in AuxData : LegacyVerifyRing(data, aux)
  \/ \E data \in InputData, aux \in AuxData, idx \in 0..MaxRingLen :
       LegacyVerifyIetf(data, aux, idx)

LegacyVrfSpec == VrfInit /\ [][LegacyVrfNext]_vars

(* ------------------------ claims: the cache ---------------------------- *)

KeySet(c) == {c[i].key : i \in DOMAIN c}

\* A thread's call has returned (or ended in a panic).
Returned(t) == pc[t] \in {"idle", "panicked"} /\ result[t] # NoResult

\* The step in which thread t's call returns from a hit / from a miss.
HitStep(t) == pc[t] = "lookup" /\ pc'[t] = "idle"
MissStep(t) == pc[t] = "build" /\ pc'[t] = "idle" /\ IsOk(result'[t])

\* C1: the cache never holds more than RING_CONTEXT_CACHE_CAPACITY distinct
\* ring sizes, and a miss that inserts into a full cache evicts exactly one
\* entry, the one whose last hit or insert is the oldest.
C1_CapacityAndLruEviction ==
  /\ Len(cache) <= RING_CONTEXT_CACHE_CAPACITY
  /\ \A i, j \in DOMAIN cache : i # j => cache[i].key # cache[j].key
  /\ last.kind = "miss" =>
       IF Len(last.before) = RING_CONTEXT_CACHE_CAPACITY
       THEN /\ last.evicted \in KeySet(last.before)
            /\ KeySet(cache) = (KeySet(last.before) \ {last.evicted}) \cup {last.n}
            /\ \A k \in KeySet(last.before) \ {last.evicted} :
                 used[k] > used[last.evicted]
       ELSE /\ last.evicted = -1
            /\ KeySet(cache) = KeySet(last.before) \cup {last.n}

\* C1 witness: a miss on a full cache evicted size 2, size 1 having been made
\* more recent by a hit.
C1_Witness ==
  /\ last.kind = "miss"
  /\ Len(last.before) = RING_CONTEXT_CACHE_CAPACITY
  /\ last.evicted = 2
  /\ used[1] > WarmSize

\* C2: a call for a supported size n returns the context an uncached build for
\* n gives; a hit builds nothing and keeps the set of cached sizes; a miss
\* builds one context and inserts it under n; n is the most recent entry
\* afterwards.
C2_HitAndMissContract ==
  [][\A t \in Threads :
       /\ (pc[t] # "idle" /\ pc'[t] = "idle" /\ arg[t] <= SrsMaxRingSize)
            => /\ IsOk(result'[t])
               /\ result'[t].val.ring_size = arg[t]
               /\ result'[t].val = FromSrs(arg[t], once.pcs.gen).val
               /\ cache'[1] = Entry(arg[t], result'[t].val)
       /\ HitStep(t)
            => /\ builds' = builds
               /\ KeySet(cache') = KeySet(cache)
               /\ result'[t].val = cache[LruIndex(cache, arg[t])].ctx
       /\ MissStep(t)
            => /\ ~LruContains(cache, arg[t])
               /\ builds' = [builds EXCEPT ![arg[t]] = @ + 1]
               /\ KeySet(cache') \ KeySet(cache) = {arg[t]}
    ]_vars

\* C2 witness: a size that was evicted has been built a second time and
\* returned.
C2_Witness ==
  /\ last.kind = "miss"
  /\ last.builds = 2
  /\ IsOk(result[last.t])
  /\ cache[1].key = last.n

\* C3 (as claimed): a call whose construction fails returns a RingContextError,
\* inserts nothing, leaves the cached sizes and their order as they were and
\* leaves the lock usable, so that calls for supported sizes still succeed.
C3_FailureIsTypedAndHarmless ==
  /\ \A t \in Threads :
       Returned(t) =>
         IF arg[t] > SrsMaxRingSize
         THEN result[t] = Err("SrsCreationError")
         ELSE IsOk(result[t]) /\ result[t].val.ring_size = arg[t]
  /\ \A t \in Threads : Returned(t) => lockHolder # t
  /\ ~poisoned
  /\ last.kind \in {"fail", "panic"} => cache = last.before
  /\ \A n \in AllSizes : n > SrsMaxRingSize => builds[n] = 0 /\ ~LruContains(cache, n)

\* C4: PCS_PARAMS and RING_CONTEXT_CACHE are each initialised at most once,
\* every caller gets that one value, and a value once there is never replaced.
C4_OnceInv ==
  /\ once.pcs.gen <= 1
  /\ once.cache.gen <= 1
  /\ \A t \in Threads :
       /\ pc[t] \in {"cachecell", "cache_init", "lock", "lookup", "build"}
            => ref[t].pcs = 1 /\ once.pcs = Cell("ready", 1)
       /\ pc[t] \in {"lock", "lookup", "build"}
            => ref[t].cache = 1 /\ once.cache = Cell("ready", 1)
       /\ Returned(t) => ref[t] = [pcs |-> 1, cache |-> 1]

C4_InitialisedAtMostOnce ==
  /\ []C4_OnceInv
  /\ [][/\ once.pcs.state = "ready" => once'.pcs = once.pcs
        /\ once.cache.state = "ready" => once'.cache = once.cache]_vars

\* C4 witness: two first calls race; one initialises the cache cell while the
\* other, having got the same parameters, waits for it.
C4_Witness ==
  \E t1, t2 \in Threads :
    /\ pc[t1] = "cache_init"
    /\ pc[t2] = "cachecell"
    /\ ref[t1].pcs = 1
    /\ ref[t2].pcs = 1

\* C5: all callers that hold a context for the same ring size hold the same
\* context, the one a build for that size gives, whether they hit, built the
\* entry or rebuilt it after an eviction.
C5_SameSizeSameContext ==
  \A t1, t2 \in Threads :
    (Returned(t1) /\ Returned(t2) /\ IsOk(result[t1]) /\ IsOk(result[t2])
       /\ arg[t1] = arg[t2])
      => /\ result[t1].val = result[t2].val
         /\ result[t1].val = FromSrs(arg[t1], 1).val
         /\ PaddingPoint(result[t1].val) = PaddingPoint(result[t2].val)
         /\ \A ring \in Rings :
              /\ RingCommit(result[t1].val, ring) = RingCommit(result[t2].val, ring)
              /\ RingVerifierOf(result[t1].val,
                                VerifierKey(result[t1].val, ring))
                   = RingVerifierOf(result[t2].val,
                                    VerifierKey(result[t2].val, ring))

\* C5 witness: two threads asked for a size that was not cached; one built it,
\* the other hit, and both hold a context.
C5_Witness ==
  \E t1, t2 \in Threads :
    /\ t1 # t2
    /\ Returned(t1) /\ Returned(t2)
    /\ IsOk(result[t1]) /\ IsOk(result[t2])
    /\ arg[t1] = WarmSize + 1 /\ arg[t2] = WarmSize + 1
    /\ builds[WarmSize + 1] = 1
    /\ last.kind = "hit"

(* ------------------ claims: signing and verifying ---------------------- *)

\* The Prover holds the secret of the ring member at its index.
HonestProver ==
  /\ prover # None
  /\ prover.val.prover_idx < Len(prover.val.ring)
  /\ prover.val.ring[prover.val.prover_idx + 1] = PublicOf(prover.val.secret)

\* The first 32 bytes of the hash of the output of (secret, input bytes).
ExpectedHash(secret, data) ==
  OutputHash(SecretOutput(secret, InputNew(data).val))[1]

\* A ring signature made by the honest Prover is being / was verified by a
\* Verifier over the same ring with the same input and additional data.
RingRoundTrip ==
  /\ HonestProver
  /\ verifier # None /\ signed # None /\ verified # None
  /\ verifier.val.ring = prover.val.ring
  /\ signed.val.op = "ring" /\ signed.val.by = "prover"
  /\ verified.val.op = "ring"
  /\ verified.val.data = signed.val.data
  /\ verified.val.aux = signed.val.aux

\* C6: a ring signature made by Prover::new(ring, secret, idx).ring_vrf_sign
\* verifies under Verifier::new(ring).ring_vrf_verify with the same input and
\* additional data, and the hash returned is the first 32 bytes of the hash
\* of the output of (secret, input), whether the context was a hit, a miss or
\* was evicted and rebuilt between signing and verifying.
C6_RingRoundTrip ==
  /\ (HonestProver /\ signed # None /\ signed.val.op = "ring"
        /\ signed.val.by = "prover" /\ signed.val.data # "nopoint")
       => IsOk(signed.val.result)
  /\ RingRoundTrip =>
       verified.val.result = Ok(ExpectedHash(prover.val.secret, signed.val.data))

\* The context was cached when signing and evicted and rebuilt for verifying.
C6_Witness ==
  /\ RingRoundTrip
  /\ signed.val.path = "hit"
  /\ verified.val.path = "miss"
  /\ builds[Len(verifier.val.ring)] = 2
  /\ IsOk(verified.val.result)

\* The output a signature carries.
SignedOutput(enc, res) == DeserializeCompressed(enc, res.val).val.output

\* The result of signing in ring mode with (aux, blinding) and verifying with
\* the same input and aux under the Verifier, from the present process state.
RingModeResult(data, aux, blinding) ==
  LET s == RingVrfSign(prover.val, data, aux, blinding, ProcSt) IN
    RingVrfVerify(verifier.val, data, aux, s.result.val, s.ps).result

\* The result of signing in IETF mode with aux and verifying at the Prover's
\* index with the same input and aux.
IetfModeResult(data, aux) ==
  IetfVrfVerify(verifier.val, data, aux,
                IetfVrfSign(prover.val, data, aux).val, prover.val.prover_idx)

\* C7: for a fixed secret and input the hash returned by ietf_vrf_verify of
\* an ietf_vrf_sign signature equals the hash returned by ring_vrf_verify of
\* a ring_vrf_sign signature, whatever additional data either side used; and
\* signing again (other additional data, other randomness, other mode) gives
\* a signature with the same output.
C7_CrossModeSameHash ==
  /\ (HonestProver /\ verifier # None /\ signed # None /\ verified # None
        /\ verifier.val.ring = prover.val.ring
        /\ signed.val.by = "prover"
        /\ verified.val.op \in {"ietf", "ring"}
        /\ verified.val.op = signed.val.op
        /\ (verified.val.op = "ietf"
              => verified.val.idx = prover.val.prover_idx)
        /\ verified.val.data = signed.val.data
        /\ verified.val.aux = signed.val.aux)
       => /\ IsOk(verified.val.result)
          /\ \A aux \in AuxData, blinding \in Blindings :
               /\ RingModeResult(signed.val.data, aux, blinding)
                    = verified.val.result
               /\ IetfModeResult(signed.val.data, aux) = verified.val.result
  /\ (HonestProver /\ signed # None /\ signed.val.by = "prover"
        /\ IsOk(signed.val.result))
       => LET enc == IF signed.val.op = "ring" THEN "RingVrfSignature"
                     ELSE "IetfVrfSignature"
              out == SignedOutput(enc, signed.val.result)
          IN \A aux \in AuxData, blinding \in Blindings :
               /\ SignedOutput("RingVrfSignature",
                               RingVrfSign(prover.val, signed.val.data, aux,
                                           blinding, ProcSt).result) = out
               /\ SignedOutput("IetfVrfSignature",
                               IetfVrfSign(prover.val, signed.val.data, aux)) = out
               /\ VrfOutputHash(out)
                    = ExpectedHash(prover.val.secret, signed.val.data)

\* An IETF signature of the second member of a two-key ring was verified.
C7_Witness ==
  /\ HonestProver
  /\ verifier # None /\ signed # None /\ verified # None
  /\ verifier.val.ring = prover.val.ring
  /\ prover.val.prover_idx = 1
  /\ signed.val.op = "ietf" /\ signed.val.by = "prover"
  /\ verified.val.op = "ietf"
  /\ verified.val.idx = prover.val.prover_idx
  /\ verified.val.data = signed.val.data
  /\ verified.val.aux = signed.val.aux
  /\ IsOk(verified.val.result)

\* What the two ring verifiers' results have in common: the hash, or the
\* kind of the error.
ResultKind(res) ==
  IF IsOk(res) THEN res
  ELSE IF res.err.error \in {"VerificationFailed", "SignatureVerificationFailed"}
  THEN Err("verification")
  ELSE Err(res.err.error)

ViaVerifier(data, aux, bytes) ==
  RingVrfVerify(verifier.val, data, aux, bytes, ProcSt).result

ViaCommitment(data, aux, bytes) ==
  CommitmentRingVrfVerify(
    CommitmentNew(GetCommitment(verifier.val), Len(verifier.val.ring)),
    data, aux, bytes, ProcSt).result

\* C8: Verifier::new(ring).ring_vrf_verify and Commitment::new(that
\* verifier's commitment, len(ring)).ring_vrf_verify agree on every input,
\* additional data and signature bytes: the same hash, or a failure of the
\* same kind (deserialization, input point, context, verification).
C8_VerifierAndCommitmentAgree ==
  /\ (verifier # None /\ signed # None /\ IsOk(signed.val.result))
       => \A data \in InputData, aux \in AuxData :
            ResultKind(ViaVerifier(data, aux, signed.val.result.val))
              = ResultKind(ViaCommitment(data, aux, signed.val.result.val))
  /\ (verified # None /\ verified.val.op = "ring")
       => ResultKind(verified.val.result)
            = ResultKind(ViaCommitment(verified.val.data, verified.val.aux,
                                       verified.val.bytes))
  /\ (verified # None /\ verified.val.op = "commitment"
        /\ verified.val.ring_size = Len(verifier.val.ring))
       => ResultKind(verified.val.result)
            = ResultKind(ViaVerifier(verified.val.data, verified.val.aux,
                                     verified.val.bytes))

\* The commitment verifier accepted a signature over a non-empty ring.
C8_Witness ==
  /\ verified # None
  /\ verified.val.op = "commitment"
  /\ verified.val.ring_size = Len(verifier.val.ring)
  /\ Len(verifier.val.ring) > 0
  /\ IsOk(verified.val.result)

\* C9: Verifier::ring_vrf_verify ends every call with a value: malformed
\* signature bytes give DeserializationError, else an unmappable input gives
\* VrfInputPointError, else a failed context lookup gives RingContextError,
\* else a rejected proof gives VerificationFailed (the unit error of
\* ring_vrf.rs counts as that one); it returns Ok(hash) only if the proof
\* verifies under the key rebuilt from the stored commitment.
C9_RingVerifyTypedErrors ==
  (verified # None /\ verified.val.op = "ring") =>
    LET res == verified.val.result
        sig == DeserializeCompressed("RingVrfSignature", verified.val.bytes)
        input == InputNew(verified.val.data)
        ctx == FromSrs(Len(verifier.val.ring), once.pcs.gen)
    IN /\ res # Panicked
       /\ IsOk(res) \/ IsErr(res)
       /\ IF IsErr(sig) THEN res = Err(TypedError("DeserializationError"))
          ELSE IF input = None THEN res = Err(TypedError("VrfInputPointError"))
          ELSE IF IsErr(ctx) \/ poisoned
          THEN IsErr(res) /\ res.err.error = "RingContextError"
          ELSE IF RingVerify(input.val, sig.val.output, verified.val.aux,
                             sig.val.proof,
                             RingVerifierOf(ctx.val,
                               VerifierKeyFromCommitment(ctx.val,
                                 verifier.val.commitment)))
          THEN res = Ok(OutputHash(sig.val.output)[1])
          ELSE IsErr(res) /\ res.err.error \in {"VerificationFailed", "()"}

\* C10: Verifier::ietf_vrf_verify with a well-formed signature and a mappable
\* input returns InvalidSignerKeyIndex when signer_key_index >= len(ring) (an
\* empty ring included), with no crash and no Ok; with an index inside the
\* ring it accepts exactly when the proof verifies under ring[index].
C10_IetfVerifyIndexChecked ==
  (verified # None /\ verified.val.op = "ietf"
     /\ IsOk(DeserializeCompressed("IetfVrfSignature", verified.val.bytes))
     /\ InputNew(verified.val.data) # None) =>
    LET res == verified.val.result
        sig == DeserializeCompressed("IetfVrfSignature", verified.val.bytes).val
        input == InputNew(verified.val.data).val
        ring == verifier.val.ring
    IN IF verified.val.idx >= Len(ring)
       THEN res = Err(TypedError("InvalidSignerKeyIndex"))
       ELSE IF IetfVerify(ring[verified.val.idx + 1], input, sig.output,
                          verified.val.aux, sig.proof)
       THEN res = Ok(OutputHash(sig.output)[1])
       ELSE IsErr(res)

\* The output point a signature carries, read as the encoding the path expects.
CarriedOutput(op, bytes) ==
  DeserializeCompressed(IF op = "ietf" THEN "IetfVrfSignature"
                        ELSE "RingVrfSignature", bytes).val.output

\* C11: on every successful verification, on each of the three paths, the
\* value returned is the first 32 bytes of the 64-byte hash of the output
\* point carried in the signature, and nothing else enters it: every other
\* additional data and signer index under which the same bytes verify gives
\* the same value.
C11_HashOfCarriedOutputOnly ==
  (verified # None /\ IsOk(verified.val.result)) =>
    LET bytes == verified.val.bytes
        hash == OutputHash(CarriedOutput(verified.val.op, bytes))[1]
    IN /\ verified.val.result = Ok(hash)
       /\ \A data \in InputData, aux \in AuxData :
            /\ verified.val.op = "ietf" =>
                 \A idx \in 0..MaxRingLen :
                   LET r == IetfVrfVerify(verifier.val, data, aux, bytes, idx)
                   IN IsOk(r) => r = Ok(hash)
            /\ verified.val.op # "ietf" =>
                 /\ LET r == ViaVerifier(data, aux, bytes)
                    IN IsOk(r) => r = Ok(hash)
                 /\ LET r == ViaCommitment(data, aux, bytes)
                    IN IsOk(r) => r = Ok(hash)

\* An IETF signature made with the second additional data was accepted under
\* a one-key ring.
C11_Witness ==
  /\ verified # None
  /\ verified.val.op = "ietf"
  /\ verified.val.aux = "y"
  /\ Len(verifier.val.ring) = 1
  /\ IsOk(verified.val.result)

\* C12: a ring or IETF signature the Prover made for input bytes a does not
\* verify against other input bytes b: with the signature's own mode and a
\* signer index inside the ring, ring_vrf_verify and ietf_vrf_verify return
\* VerificationFailed, for every ring, additional data and signer.
C12_OtherInputRejected ==
  (prover # None /\ verifier # None /\ signed # None /\ verified # None
     /\ signed.val.by = "prover"
     /\ verified.val.op \in {"ring", "ietf"}
     /\ verified.val.op = signed.val.op
     /\ (verified.val.op = "ietf" => verified.val.idx < Len(verifier.val.ring))
     /\ verified.val.data # signed.val.data
     /\ verified.val.data # "nopoint")
    => verified.val.result = Err(TypedError("VerificationFailed"))

\* The honest member's ring signature for "a", otherwise verifiable (same
\* ring, same additional data), was checked against "b".
C12_Witness ==
  /\ HonestProver
  /\ verifier # None /\ signed # None /\ verified # None
  /\ verifier.val.ring = prover.val.ring
  /\ signed.val.op = "ring" /\ signed.val.by = "prover"
  /\ signed.val.data = "a"
  /\ verified.val.op = "ring"
  /\ verified.val.data = "b"
  /\ verified.val.aux = signed.val.aux
  /\ verified.val.result = Err(TypedError("VerificationFailed"))

\* The honest Prover's signature was verified by a Verifier over the same
\* ring with the same input and additional data, in the signature's mode.
SameRingSameMessage ==
  /\ HonestProver
  /\ verifier # None /\ signed # None /\ verified # None
  /\ verifier.val.ring = prover.val.ring
  /\ signed.val.by = "prover"
  /\ verified.val.op = signed.val.op
  /\ verified.val.data = signed.val.data
  /\ verified.val.aux = signed.val.aux

\* C13: a ring signature made by the member at any index verifies under
\* ring_vrf_verify, which is given no index; an IETF signature made by member
\* i is accepted by ietf_vrf_verify at signer_key_index i and fails with
\* VerificationFailed at every index j # i inside the ring whose key differs
\* from ring[i].
C13_AnonymousRingAttributedIetf ==
  /\ (SameRingSameMessage /\ verified.val.op = "ring")
       => IsOk(verified.val.result)
  /\ (SameRingSameMessage /\ verified.val.op = "ietf"
        /\ verified.val.idx < Len(verifier.val.ring))
       => LET i == prover.val.prover_idx
              j == verified.val.idx
              ring == verifier.val.ring
          IN /\ j = i => IsOk(verified.val.result)
             /\ (j # i /\ ring[j + 1] # ring[i + 1])
                  => verified.val.result = Err(TypedError("VerificationFailed"))

\* The second member of a two-key ring signed in IETF mode and the signature
\* was checked against the first member's index.
C13_Witness ==
  /\ SameRingSameMessage
  /\ Len(verifier.val.ring) = 2
  /\ prover.val.prover_idx = 1
  /\ verified.val.op = "ietf"
  /\ verified.val.idx = 0
  /\ verified.val.result = Err(TypedError("VerificationFailed"))

\* The Prover's index does not point at its own key in the ring.
InconsistentIndex ==
  /\ prover # None
  /\ ~HonestProver

\* C14: Prover::new takes any (ring, secret, prover_idx); for every
\* prover_idx, also one where ring[prover_idx] is not the secret's key and one
\* with prover_idx >= len(ring), ring_vrf_sign ends with a typed error or with
\* signature bytes, never a crash; and a signature made with an inconsistent
\* index fails ring_vrf_verify against that ring.
C14_UncheckedIndexNoCrash ==
  /\ (signed # None /\ signed.val.by = "prover" /\ signed.val.op = "ring")
       => /\ signed.val.result # Panicked
          /\ IsOk(signed.val.result) \/ IsErr(signed.val.result)
  /\ (InconsistentIndex /\ verifier # None /\ signed # None /\ verified # None
        /\ signed.val.by = "prover" /\ signed.val.op = "ring"
        /\ verified.val.op = "ring"
        /\ verifier.val.ring = prover.val.ring)
       => IsErr(verified.val.result)

\* The variants of ProverError a sign call can return.
ProverErrors ==
  {TypedError("VrfInputPointError"), TypedError("SerializationError")}
    \cup {FromRingContextError(e) : e \in RingContextErrors}

\* C15: ring_vrf_sign and ietf_vrf_sign return every failure as a ProverError
\* and then no bytes: input bytes mapping to no point give VrfInputPointError
\* before any context is requested, a failed context lookup in ring_vrf_sign
\* gives RingContextError, a failed encoding SerializationError; with an
\* index on an existing key slot nothing else can fail.
C15_SignFailuresTyped ==
  (signed # None /\ signed.val.by = "prover") =>
    LET res == signed.val.result
        ctx == FromSrs(Len(prover.val.ring), once.pcs.gen)
    IN IF signed.val.data = "nopoint"
       THEN /\ res = Err(TypedError("VrfInputPointError"))
            /\ signed.val.path = "none"
       ELSE IF signed.val.op = "ring" /\ (IsErr(ctx) \/ poisoned)
       THEN IsErr(res) /\ res.err.error = "RingContextError"
       ELSE IF signed.val.op = "ring"
                 /\ prover.val.prover_idx >= KeysetPartSize(ctx.val)
       THEN ~IsOk(res)
       ELSE IsOk(res) \/ res \in {Err(e) : e \in ProverErrors}

(* ------------------------------- C16 ---------------------------------- *)
\* The commitment of a ring under the one set of PCS parameters a process
\* ever loads: it depends on the ring's keys and their order only.
CommitmentOfRing(ring) == RingCommit(FromSrs(Len(ring), 1).val, ring)

\* The rings the C interface hands to Verifier::new for the buffers used.
FfiRings ==
  {Substitute(b, PaddingPoint(FromSrs(Len(b), 1).val)) :
     b \in {k \in KeyBuffers : Len(k) <= SrsMaxRingSize}}

\* C16: in every reachable state of the process in which nothing has been
\* signed yet, whatever the cache holds
\* (the context cached, never built, or evicted after other ring sizes were
\* requested), Verifier::new(ring) stores the commitment that is a function
\* of the ordered ring alone; the Verifier made earlier still holds that
\* commitment, and get_commitment and vrf_get_commitment return it unchanged.
C16_CommitmentOfRingAlone ==
  /\ (signed = None =>
        \A ring \in FfiRings :
          LET v == VerifierNew(ring, ProcSt) IN
            IsOk(v.result) =>
              GetCommitment(v.result.val) = CommitmentOfRing(ring))
  /\ (verifier # None =>
        /\ GetCommitment(verifier.val) = CommitmentOfRing(verifier.val.ring)
        /\ vrf_get_commitment(verifier.val)
             = Ok(CommitmentSerialize(CommitmentOfRing(verifier.val.ring))))

\* A Verifier was made from a context rebuilt after its eviction, and other
\* ring sizes have been requested since it was made.
C16_Witness ==
  /\ verifier # None
  /\ verifier.val.ring # <<>>
  /\ ffi.vnew.val.path = "miss"
  /\ ffi.vnew.val.built >= 2
  /\ ~LruContains(cache, Len(verifier.val.ring))

(* ------------------------------- C17 ---------------------------------- *)
\* The ring size of the last ring_context call made from process state ps.
RequestedSize(ps) == ps.st.last.n

\* C17: Prover::ring_vrf_sign, Verifier::new and Verifier::ring_vrf_verify,
\* whenever they ask for a ring context, ask for the one of exactly the
\* length of their ring; and a Commitment verifier built with a ring_size
\* other than the length of the ring its commitment was derived from never
\* returns Ok.
C17_SizesNeverMixed ==
  /\ \A ring \in Rings :
       LET v == VerifierNew(ring, ProcSt) IN
         RequestedSize(v.ps) = Len(ring)
  /\ (prover # None =>
        LET r == RingVrfSign(prover.val, "a", "x", "r1", ProcSt) IN
          r.path # "none" /\ RequestedSize(r.ps) = Len(prover.val.ring))
  /\ (CanVerify /\ signed.val.op = "ring" /\ signed.val.by = "prover" =>
        LET r == RingVrfVerify(verifier.val, signed.val.data, signed.val.aux,
                               signed.val.result.val, ProcSt)
        IN r.path # "none" /\ RequestedSize(r.ps) = Len(verifier.val.ring))
  /\ (/\ verified # None
      /\ verified.val.op = "commitment"
      /\ verified.val.ring_size # Len(verifier.val.ring)
      => ~IsOk(verified.val.result))

(* ------------------------------- C18 ---------------------------------- *)
\* The ring the claim describes for a buffer: the decoded key in every slot
\* whose chunk decodes, the padding point of the context of the buffer's
\* size in every other slot.
ExpectedRing(public_keys) ==
  [i \in 1..Len(public_keys) |->
     IF IsOk(PublicDeserialize(public_keys[i]))
     THEN PublicDeserialize(public_keys[i]).val
     ELSE PublicFrom(PaddingPoint(FromSrs(Len(public_keys), 1).val))]

\* C18: in every reachable state in which nothing has been signed yet and
\* for every buffer of N chunks, new_ring_vrf_verifier returns null only
\* when no context of size N can be
\* had, and new_ring_vrf_prover (given a secret that decodes) likewise; the
\* ring of the object returned has exactly N entries, slot i holding the
\* decoded key of chunk i when it decodes and the padding point of the
\* size-N context otherwise. The objects made by the calls of this execution
\* hold that ring too.
C18_InvalidKeysPadded ==
  /\ (signed = None =>
        \A b \in KeyBuffers :
          LET v == new_ring_vrf_verifier(b, ProcSt)
              p == new_ring_vrf_prover(SecretSerialize(1), b, 0, ProcSt)
              no_ctx == IsErr(RingContextSeq(ProcSt, Len(b)).result)
          IN /\ (v.result = None) = no_ctx
             /\ (p.result = None) = no_ctx
             /\ (~no_ctx => /\ v.result.val.ring = ExpectedRing(b)
                            /\ p.result.val.ring = ExpectedRing(b)))
  /\ (verifier # None /\ ffi.vnew # None =>
        verifier.val.ring = ExpectedRing(ffi.vnew.val.keys))
  /\ (prover # None /\ ffi.pnew # None =>
        prover.val.ring = ExpectedRing(ffi.pnew.val.keys))

\* Both constructors returned an object for a buffer holding a key that
\* decodes and a chunk that does not.
C18_Witness ==
  /\ verifier # None /\ prover # None
  /\ ffi.vnew # None /\ ffi.pnew # None
  /\ \E i, j \in DOMAIN ffi.pnew.val.keys :
       /\ IsOk(PublicDeserialize(ffi.pnew.val.keys[i]))
       /\ IsErr(PublicDeserialize(ffi.pnew.val.keys[j]))
       /\ prover.val.ring[i] = PublicOf(i)
       /\ verifier.val.ring[j]
            = PublicFrom(PaddingPoint(FromSrs(Len(ffi.vnew.val.keys), 1).val))

(* ------------------------------- C19 ---------------------------------- *)
\* The prover made through the C interface owns the key of its slot, and the
\* chunk of that slot decodes.
OwnSlotValid ==
  /\ prover # None /\ ffi.pnew # None
  /\ ffi.pnew.val.prover_idx + 1 \in DOMAIN ffi.pnew.val.keys
  /\ PublicDeserialize(ffi.pnew.val.keys[ffi.pnew.val.prover_idx + 1])
       = Ok(PublicOf(prover.val.secret))

\* C19: for one buffer of N chunks, new_ring_vrf_prover and
\* new_ring_vrf_verifier, called from any reachable state in which nothing
\* has been signed yet, build the same ring; the Prover and the Verifier
\* made from one buffer in this execution,
\* whatever happened to the cache between the two calls, hold the same ring,
\* and a signature of that Prover, whose own slot is valid, verifies under
\* that Verifier for the signed input and additional data; a buffer of N
\* chunks whose substituted ring differs from the Verifier's in some slot
\* gives a different commitment.
C19_SameSubstitutionBothSides ==
  /\ (signed = None =>
        \A b \in KeyBuffers :
          LET v == new_ring_vrf_verifier(b, ProcSt)
              p == new_ring_vrf_prover(SecretSerialize(1), b, 0, ProcSt)
          IN v.result # None =>
               /\ p.result # None
               /\ p.result.val.ring = v.result.val.ring)
  /\ (prover # None /\ verifier # None /\ ffi.pnew # None /\ ffi.vnew # None
      => prover.val.ring = verifier.val.ring)
  /\ (/\ OwnSlotValid
      /\ verified # None
      /\ verified.val.data = signed.val.data
      /\ verified.val.aux = signed.val.aux
      => verified.val.result
           = Ok(ExpectedHash(prover.val.secret, signed.val.data)))
  /\ (verifier # None /\ ffi.vnew # None /\ signed = None =>
        \A b \in {k \in KeyBuffers : Len(k) = Len(ffi.vnew.val.keys)} :
          LET v == new_ring_vrf_verifier(b, ProcSt) IN
            (/\ v.result # None
             /\ \E i \in DOMAIN b :
                  v.result.val.ring[i] # verifier.val.ring[i])
            => GetCommitment(v.result.val) # GetCommitment(verifier.val))

\* A signature of a Prover made from a buffer with a zeroed chunk was accepted
\* by the Verifier made from that buffer.
C19_Witness ==
  /\ OwnSlotValid
  /\ verifier # None /\ verified # None
  /\ \E j \in DOMAIN ffi.pnew.val.keys :
       /\ IsErr(PublicDeserialize(ffi.pnew.val.keys[j]))
       /\ prover.val.ring[j] = verifier.val.ring[j]
  /\ IsOk(verified.val.result)

(* ------------------------------- C20 ---------------------------------- *)
\* The 32 bytes of the point the constructors put in place of a chunk that
\* does not decode, for a ring of ring_size keys.
SubstitutedBytes(ring_size) ==
  PublicSerialize(Substitute(<<ZeroChunk>>,
                             PaddingPoint(FromSrs(ring_size, 1).val))[1])

\* C20: get_padding_point(ring_size), called from any reachable state in
\* which nothing has been signed yet, writes
\* the bytes of the point the constructors substitute in a ring of that size
\* when a context of that size can be had, and returns false with nothing
\* written when it cannot; the calls of this execution returned those bytes,
\* the second the same as the first also when the context was evicted and
\* rebuilt in between; and the Verifier made in this execution holds that
\* point in every slot whose chunk did not decode.
C20_PaddingPointStable ==
  /\ (signed = None =>
        \A ring_size \in FfiSizes :
          LET r == get_padding_point(ring_size, ProcSt) IN
            IF IsErr(RingContextSeq(ProcSt, ring_size).result)
            THEN r.result = ReturnedFalse
            ELSE r.result = Ok(SubstitutedBytes(ring_size)))
  /\ \A call \in {ffi.pad, ffi.again} \ {None} :
       IF call.val.ring_size = UnsupportedSize
       THEN call.val.result = ReturnedFalse
       ELSE call.val.result = Ok(SubstitutedBytes(call.val.ring_size))
  /\ (ffi.again # None => ffi.again.val.result = ffi.pad.val.result)
  /\ (verifier # None /\ ffi.vnew # None /\ ffi.pad # None
        /\ ffi.pad.val.ring_size = Len(verifier.val.ring) =>
        \A i \in DOMAIN verifier.val.ring :
          IsErr(PublicDeserialize(ffi.vnew.val.keys[i])) =>
            Ok(PublicSerialize(verifier.val.ring[i])) = ffi.pad.val.result)

\* get_padding_point returned the padding point for a ring size, the context
\* was evicted and the second call, which rebuilt it, returned the same bytes;
\* a Verifier of that size holds the point in a slot.
C20_Witness ==
  /\ ffi.pad # None /\ ffi.again # None
  /\ IsOk(ffi.pad.val.result)
  /\ ffi.again.val.path = "miss"
  /\ ffi.again.val.built >= 2
  /\ ffi.again.val.result = ffi.pad.val.result
  /\ verifier # None
  /\ ffi.pad.val.ring_size = Len(verifier.val.ring)
  /\ \E i \in DOMAIN verifier.val.ring :
       Ok(PublicSerialize(verifier.val.ring[i])) = ffi.pad.val.result

(* ------------------- C21: errors at the C interface -------------------- *)

\* A context can be built for a ring of num_keys keys.
ContextBuildable(num_keys) == IsOk(FromSrs(num_keys, 1))

\* The last call of a bool function returned true exactly when the operation it
\* wraps returned Ok and false exactly when it returned an error; a call that
\* returned false left the caller's output buffer and length as they were.
BoolFollowsResult ==
  ffi.call # None =>
    /\ (ffi.call.val.returned <=> IsOk(ffi.call.val.wrapped))
    /\ (~ffi.call.val.returned <=> IsErr(ffi.call.val.wrapped))
    /\ (~ffi.call.val.returned => ffi.call.val.after = ffi.call.val.before)
    /\ ffi.out = ffi.call.val.after

\* new_ring_vrf_prover returned null exactly when the secret does not decode
\* or no context can be built for public_keys_len / 32 keys.
ProverNullWhen ==
  ffi.pnew # None =>
    (ffi.pnew.val.result = None <=>
       IF IsErr(SecretDeserialize(ffi.pnew.val.secret)) THEN TRUE
       ELSE ~ContextBuildable(NumKeys(ffi.pnew.val.keys)))

create_vrf_input(input_data) ==
  IF InputNew(input_data) = None THEN Panicked ELSE InputNew(input_data).val

\* bandersnatch_sign_impl after create_vrf_input returned input
SignWithInput(secret, input, context_data) ==
  [output |-> SecretOutput(secret, input),
   proof |-> IetfProve(secret, input, SecretOutput(secret, input),
                       context_data)]

\* bandersnatch_sign_impl: a BandersnatchSignature, or a panic
bandersnatch_sign_impl(secret, vrf_input_data, context_data) ==
  IF create_vrf_input(vrf_input_data) = Panicked THEN Panicked
  ELSE Ok(SignWithInput(secret, create_vrf_input(vrf_input_data),
                        context_data))

\* bandersnatch_verify_impl after create_vrf_input returned input
VerifyWithInput(public, input, context_data, signature) ==
  IF ~IetfVerify(public, input, signature.output, context_data,
                 signature.proof)
  THEN Err("()")
  ELSE Ok(VrfOutputHash(signature.output))

\* bandersnatch_verify_impl: Ok(vrf_output_hash), Err(()), or a panic
bandersnatch_verify_impl(public, vrf_input_data, context_data, signature) ==
  IF create_vrf_input(vrf_input_data) = Panicked THEN Panicked
  ELSE VerifyWithInput(public, create_vrf_input(vrf_input_data), context_data,
                       signature)

\* bandersnatch_sign_impl(secret, message, context)
BandersnatchSign(secret, message, context) ==
  /\ signed = None
  /\ signed' = SignedRec("bandersnatch", message, context,
                         bandersnatch_sign_impl(secret, message, context),
                         "none", secret)
  /\ UNCHANGED <<cacheVars, prover, verifier, verified, ffi>>

\* bandersnatch_verify_impl(public, message, context, signature) with the
\* public key of any secret
BandersnatchVerify(secret, message, context) ==
  /\ signed # None
  /\ signed.val.op = "bandersnatch"
  /\ IsOk(signed.val.result)
  /\ verified = None
  /\ verified' = VerifiedRec("bandersnatch", message, context, secret, 0,
                             signed.val.result.val,
                             bandersnatch_verify_impl(PublicOf(secret), message,
                                                      context,
                                                      signed.val.result.val),
                             "none")
  /\ UNCHANGED <<cacheVars, prover, verifier, signed, ffi>>

SignNext ==
  \/ \E secret \in Secrets, message \in InputData, context \in AuxData :
       BandersnatchSign(secret, message, context)
  \/ \E secret \in Secrets, message \in InputData, context \in AuxData :
       BandersnatchVerify(secret, message, context)

SignSpec == VrfInit /\ [][SignNext]_vars

(* ---------------------- C23: plain round trip -------------------------- *)

\* C23: for every secret, message and context, signing does not fail, and
\* verifying the signature with the signer's public key, the same message and
\* the same context succeeds with the first 32 bytes of the hash of the
\* output derived from the secret and the message, whatever the context.
C23_PlainRoundTrip ==
  /\ (signed # None /\ signed.val.op = "bandersnatch" =>
        IsOk(signed.val.result))
  /\ (verified # None /\ verified.val.op = "bandersnatch"
        /\ verified.val.idx = signed.val.by
        /\ verified.val.data = signed.val.data
        /\ verified.val.aux = signed.val.aux =>
        verified.val.result = Ok(ExpectedHash(signed.val.by, signed.val.data)))

(* -------------------- execute_pvm (polkavm_ffi/src/lib.rs) ------------- *)
\* The library calls execute_pvm makes are given by their outcomes: whether
\* Engine::new and instantiate succeed, whether the bytes parse and the blob
\* loads, and per page whether write_memory and protect_memory succeed. A
\* program that loads is the sequence of things its instructions do.

\* registers: [u64; 13]
NumRegisters == 13

\* Pages passed in one call, and the low part of the largest gas limit.
MaxPages == 2

MaxGas == 2

\* A u64 as k * 2^63 + r, with k in {0, 1}; an i64 likewise with k in {-1, 0}.
U64(k, r) == [k |-> k, r |-> r]

\* gas_limit as i64: values from 2^63 on wrap to negative ones
AsI64(gas_limit) == [k |-> 0 - gas_limit.k, r |-> gas_limit.r]

GasLimits == {U64(k, r) : k \in {0, 1}, r \in {0, MaxGas}}

RegisterFiles ==
  {[i \in 0..(NumRegisters - 1) |-> 0], [i \in 0..(NumRegisters - 1) |-> i + 1]}

InvalidProgram == [parses |-> FALSE, loads |-> FALSE, code |-> <<>>]

Programs ==
  {InvalidProgram, [parses |-> TRUE, loads |-> FALSE, code |-> <<>>]}
    \cup {[parses |-> TRUE, loads |-> TRUE, code |-> code] :
            code \in {<<"nop", "ret">>, <<"ecalli", "trap">>,
                      <<"nop", "segfault">>, <<"fault">>,
                      <<"nop", "nop", "nop">>}}

PageKinds ==
  {[is_writable |-> w, write_memory |-> wm, protect_memory |-> pm] :
     w \in BOOLEAN, wm \in {"ok", "err"}, pm \in {"ok", "err"}}

PageLists ==
  UNION {[1..n -> {p \in PageKinds :
                     IF p.write_memory = "err"
                     THEN p.protect_memory = "ok" /\ p.is_writable
                     ELSE p.is_writable => p.protect_memory = "ok"}] :
           n \in 0..MaxPages}

\* The ExecutionResult of every early return during set-up.
SetupFailure(status, gas_limit) ==
  [status |-> status, final_pc |-> 0, pages |-> None, page_count |-> 0,
   registers |-> [i \in 0..(NumRegisters - 1) |-> 0],
   gas_remaining |-> AsI64(gas_limit), segfault_address |-> 0]

\* A library call execute_pvm made, and whether it returned Ok.
Done(call) == [call |-> call, ok |-> TRUE]

Failed(call) == [call |-> call, ok |-> FALSE]

\* What a call did and returned: the library calls in order, the
\* instructions executed, and the ExecutionResult.
Outcome(res, stages, executed) ==
  [result |-> res, stages |-> stages, executed |-> executed]

\* for page in pages { write_memory ..; if !page.is_writable { protect_memory } }
\* The library calls made, ending with the one that failed if one did.
RECURSIVE SetUpPages(_)
SetUpPages(pages) ==
  IF pages = <<>> THEN <<>>
  ELSE IF Head(pages).write_memory = "err" THEN <<Failed("write_memory")>>
  ELSE IF Head(pages).is_writable
  THEN <<Done("write_memory")>> \o SetUpPages(Tail(pages))
  ELSE IF Head(pages).protect_memory = "err"
  THEN <<Done("write_memory"), Failed("protect_memory")>>
  ELSE <<Done("write_memory"), Done("protect_memory")>> \o SetUpPages(Tail(pages))

PagesFailed(calls_made) ==
  /\ calls_made # <<>>
  /\ ~calls_made[Len(calls_made)].ok

\* instance.run() with step tracing and synchronous gas metering: what the
\* instruction at next_pc does, one unit of gas each.
Interrupt(code, next_pc, gas) ==
  IF next_pc >= Len(code) THEN "Trap"
  ELSE IF gas.k < 0 \/ gas.r < 1 THEN "NotEnoughGas"
  ELSE CASE code[next_pc + 1] = "nop" -> "Step"
         [] code[next_pc + 1] = "ecalli" -> "Ecalli"
         [] code[next_pc + 1] = "ret" -> "Finished"
         [] code[next_pc + 1] = "trap" -> "Trap"
         [] code[next_pc + 1] = "segfault" -> "Segfault"
         [] OTHER -> "Err"

\* let status = loop { match instance.run() { .. } }: the status, the
\* instance's program counter and gas, current_pc, and the instructions run
RECURSIVE RunLoop(_, _, _, _, _)
RunLoop(code, next_pc, gas, current_pc, executed) ==
  IF Interrupt(code, next_pc, gas) \in {"Step", "Ecalli"}
  THEN RunLoop(code, next_pc + 1, [gas EXCEPT !.r = @ - 1],
               IF Interrupt(code, next_pc, gas) = "Step" THEN next_pc + 1 ELSE current_pc,
               executed + 1)
  ELSE [interrupt |-> Interrupt(code, next_pc, gas), pc |-> next_pc, gas |-> gas,
        current_pc |-> current_pc, executed |-> executed]

\* What execute_pvm returns once the loop is left with run.
Finish(run, pages, initial_registers, gas_limit, stages) ==
  Outcome(IF run.interrupt = "Err"
          THEN [SetupFailure("InstanceRunError", gas_limit)
                  EXCEPT !.final_pc = run.current_pc]
          ELSE [status |-> CASE run.interrupt = "Finished" -> "Success"
                             [] run.interrupt = "Trap" -> "Trap"
                             [] run.interrupt = "NotEnoughGas" -> "OutOfGas"
                             [] OTHER -> "Segfault",
                final_pc |-> run.pc, pages |-> Some(pages),
                page_count |-> Len(pages), registers |-> initial_registers,
                gas_remaining |-> run.gas,
                segfault_address |->
                  IF run.interrupt = "Segfault" THEN run.pc ELSE 0],
          stages \o <<Done("set_reg"), Done("run")>>, run.executed)

\* execute_pvm after instantiate succeeded; calls_made is SetUpPages(pages)
WithInstance(program, pages, initial_registers, gas_limit, calls_made) ==
  IF PagesFailed(calls_made)
  THEN Outcome(SetupFailure("MemoryError", gas_limit),
               <<Done("Engine::new"), Done("ProgramBlob::parse"), Done("Module::from_blob"),
                 Done("instantiate")>> \o calls_made, 0)
  ELSE Finish(RunLoop(program.code, 0, AsI64(gas_limit), 0, 0), pages,
              initial_registers, gas_limit,
              <<Done("Engine::new"), Done("ProgramBlob::parse"), Done("Module::from_blob"),
                Done("instantiate")>> \o calls_made)

\* execute_pvm
execute_pvm(engine, program, instantiate, pages, initial_registers, gas_limit) ==
  IF engine = "err"
  THEN Outcome(SetupFailure("EngineError", gas_limit), <<Failed("Engine::new")>>, 0)
  ELSE IF ~program.parses
  THEN Outcome(SetupFailure("ProgramError", gas_limit),
               <<Done("Engine::new"), Failed("ProgramBlob::parse")>>, 0)
  ELSE IF ~program.loads
  THEN Outcome(SetupFailure("ModuleError", gas_limit),
               <<Done("Engine::new"), Done("ProgramBlob::parse"), Failed("Module::from_blob")>>,
               0)
  ELSE IF instantiate = "err"
  THEN Outcome(SetupFailure("InstantiationError", gas_limit),
               <<Done("Engine::new"), Done("ProgramBlob::parse"), Done("Module::from_blob"),
                 Failed("instantiate")>>, 0)
  ELSE WithInstance(program, pages, initial_registers, gas_limit,
                    SetUpPages(pages))

\* One call of execute_pvm and what it returned.
PvmCalled(engine, program, instantiate, pages, initial_registers, gas_limit, out) ==
  ffi' = [ffi EXCEPT !.pvm =
            Some([engine |-> engine, program |-> program,
                  instantiate |-> instantiate, pages |-> pages,
                  initial_registers |-> initial_registers,
                  gas_limit |-> gas_limit, result |-> out.result,
                  stages |-> out.stages, executed |-> out.executed])]

ExecutePvm(engine, program, instantiate, pages, initial_registers, gas_limit) ==
  /\ ffi.pvm = None
  /\ PvmCalled(engine, program, instantiate, pages, initial_registers,
               gas_limit,
               execute_pvm(engine, program, instantiate, pages,
                           initial_registers, gas_limit))
  /\ UNCHANGED <<cacheVars, prover, verifier, signed, verified>>

PvmNext ==
  \E engine \in {"ok", "err"}, program \in Programs,
     instantiate \in {"ok", "err"}, pages \in PageLists,
     initial_registers \in RegisterFiles, gas_limit \in GasLimits :
    ExecutePvm(engine, program, instantiate, pages, initial_registers,
               gas_limit)

PvmSpec == VrfInit /\ [][PvmNext]_vars

(* ------------------- C24: set-up failures of execute_pvm --------------- *)

\* The set-up stages in the order the claim gives, by the library call of each.
SetupOrder ==
  <<"Engine::new", "ProgramBlob::parse", "Module::from_blob", "instantiate">>

\* The pages execute_pvm can set up: those before the first page for which
\* write_memory or protect_memory fails (all of them when none fails).
RECURSIVE PagesBeforeFailure(_)
PagesBeforeFailure(pages) ==
  IF pages = <<>> THEN 0
  ELSE IF Head(pages).write_memory = "err" THEN 0
  ELSE IF ~Head(pages).is_writable /\ Head(pages).protect_memory = "err" THEN 0
  ELSE 1 + PagesBeforeFailure(Tail(pages))

\* The first set-up stage that fails for the arguments of a call: 1 to 4 in
\* SetupOrder, 5 for the memory pages, 0 when set-up succeeds.
FirstFailure(c) ==
  IF c.engine = "err" THEN 1
  ELSE IF ~c.program.parses THEN 2
  ELSE IF ~c.program.loads THEN 3
  ELSE IF c.instantiate = "err" THEN 4
  ELSE IF PagesBeforeFailure(c.pages) < Len(c.pages) THEN 5
  ELSE 0

StatusOfStage ==
  <<"EngineError", "ProgramError", "ModuleError", "InstantiationError",
    "MemoryError">>

\* The library calls of the stages up to stage n were made in the fixed order
\* and returned Ok.
InOrderUpTo(stages, n) ==
  /\ Len(stages) >= n
  /\ \A j \in 1..n : j <= Len(SetupOrder) => stages[j] = Done(SetupOrder[j])

\* The call stopped in stage n: its last library call is the one that
\* failed, it belongs to stage n, and every page call is for a page up to the
\* failing one.
StoppedIn(c, n) ==
  /\ InOrderUpTo(c.stages, IF n = 5 THEN 4 ELSE n - 1)
  /\ ~c.stages[Len(c.stages)].ok
  /\ \A j \in 1..(Len(c.stages) - 1) : c.stages[j].ok
  /\ IF n < 5
     THEN Len(c.stages) = n /\ c.stages[n].call = SetupOrder[n]
     ELSE /\ \A j \in 5..Len(c.stages) :
               c.stages[j].call \in {"write_memory", "protect_memory"}
          /\ Cardinality({j \in 5..Len(c.stages) :
                            c.stages[j].call = "write_memory"})
               = PagesBeforeFailure(c.pages) + 1
  /\ c.executed = 0

\* C24: a call whose first failing set-up stage is stage n returns that
\* stage's status with final_pc 0, a null pages pointer, page_count 0, 13
\* zero registers, gas_remaining equal to gas_limit and segfault_address 0,
\* having made the library calls of the stages before n in the fixed order,
\* no call of a later stage and run no instruction; and (the engine created)
\* bytes that are no valid program give ProgramError whatever else is passed.
C24_SetupStopsAtFirstFailure ==
  ffi.pvm # None =>
    /\ (FirstFailure(ffi.pvm.val) # 0 =>
          /\ ffi.pvm.val.result =
               [status |-> StatusOfStage[FirstFailure(ffi.pvm.val)],
                final_pc |-> 0, pages |-> None, page_count |-> 0,
                registers |-> [i \in 0..12 |-> 0],
                gas_remaining |-> ffi.pvm.val.gas_limit,
                segfault_address |-> 0]
          /\ StoppedIn(ffi.pvm.val, FirstFailure(ffi.pvm.val)))
    /\ (ffi.pvm.val.engine = "ok" /\ ffi.pvm.val.program = InvalidProgram =>
          ffi.pvm.val.result.status = "ProgramError")

(* ----------------- C25: construction under the cache lock -------------- *)

\* Thread t is inside the cache critical section: between taking the lock
\* and returning.
InCritical(t) == pc[t] \in {"lookup", "build"}

\* At most one thread is inside the critical section, it is the lock holder,
\* and so at most one context is being constructed.
OneInCritical ==
  /\ \A t, u \in Threads : InCritical(t) /\ InCritical(u) => t = u
  /\ \A t \in Threads : InCritical(t) => lockHolder = t
  /\ Cardinality({t \in Threads : pc[t] = "build"}) <= 1

\* C25: in every step, at most one thread is inside the cache critical
\* section (so at most one construction is in progress, whatever the sizes),
\* and no call looks up or returns a cached context while another thread is
\* constructing one.
C25_ConstructionUnderLock ==
  [][/\ OneInCritical'
     /\ \A t, u \in Threads :
          pc[u] = "build" /\ t # u =>
            /\ pc'[t] = pc[t] \/ pc[t] \in {"idle", "pcs", "pcs_init",
                                            "cachecell", "cache_init"}
            /\ result'[t] = result[t] \/ pc[t] = "idle"]_vars

\* One thread is constructing a context for a size that is not cached while
\* another, asking for a cached size, waits for the lock.
C25_Witness ==
  \E t, u \in Threads :
    /\ pc[t] = "build"
    /\ pc[u] = "lock"
    /\ arg[u] # arg[t]
    /\ LruContains(cache, arg[u])

(* --------------------- C26: no call blocks forever --------------------- *)

\* ring_context under a fair scheduler: a thread that can take a step of its
\* call eventually takes one, and a thread waiting for the mutex gets it if
\* the mutex is free again and again.
ThreadStep(t) ==
  \/ OnceGet(t)
  \/ OnceBegin(t)
  \/ OnceEnd(t)
  \/ LookupHit(t)
  \/ LookupMiss(t)
  \/ BuildOk(t)
  \/ BuildFail(t)

FairSpec ==
  /\ Spec
  /\ \A t \in Threads : WF_vars(ThreadStep(t)) /\ SF_vars(Lock(t))

\* Every call of ring_context (ring_vrf/context.rs) that was started returns.
EveryCallReturns ==
  \A t \in Threads : (pc[t] # "idle") ~> (pc[t] = "idle" /\ result[t] # NoResult)

\* C26, what a finite run can show of it: every call that has ended returned
\* a context or a RingContextError; a thread outside the critical section
\* does not hold the lock, so the lock was released on every exit path; and
\* after a failed construction no call fails with CacheLockError or ends
\* without returning.
C26_CallsReturnLockReleased ==
  /\ \A t \in Threads :
       Returned(t) =>
         /\ pc[t] = "idle"
         /\ IF IsOk(result[t]) THEN result[t].val.ring_size = arg[t]
            ELSE IsErr(result[t]) /\ result[t].err \in RingContextErrors
  /\ \A t \in Threads : pc[t] \notin {"lookup", "build"} => lockHolder # t
  /\ \A t \in Threads : result[t] # Err("CacheLockError")
  /\ \A t \in Threads : pc[t] # "panicked"

(* ---------------- one caller, every method of the instances ------------ *)
\* The caller makes a Prover, a Verifier and a Commitment and calls their
\* methods; what each call returned is recorded in signed, verified and got.

\* Commitment::get_ring_size
GetRingSize(c) == c.ring_size

\* Commitment::new(verifier.get_commitment(), ring_size)
HoldCommitment(ring_size) ==
  /\ verifier # None
  /\ ffi.commitment = None
  /\ ffi' = [ffi EXCEPT !.commitment =
               Some(CommitmentNew(GetCommitment(verifier.val), ring_size))]
  /\ UNCHANGED <<cacheVars, prover, verifier, signed, verified>>

\* The Commitment after a call of one of its methods, and what a getter gave.
CommitmentKept(got) ==
  ffi' = [ffi EXCEPT !.commitment = SharedBorrow(@), !.got = got]

\* commitment.ring_vrf_verify(data, aux, bytes)
CommitmentVerified(data, aux, bytes, r) ==
  /\ verified' = VerifiedRec("commitment", data, aux, 0,
                             ffi.commitment.val.ring_size, bytes, r.result,
                             r.path)
  /\ CommitmentKept(ffi.got)
  /\ SetProcSt(r.ps)

CommitmentVerify(data, aux) ==
  /\ ffi.commitment # None
  /\ signed # None
  /\ IsOk(signed.val.result)
  /\ verified = None
  /\ CommitmentVerified(data, aux, signed.val.result.val,
                        CommitmentRingVrfVerify(ffi.commitment.val, data, aux,
                                                signed.val.result.val, ProcSt))
  /\ UNCHANGED <<threadVars, prover, verifier, signed>>

\* commitment.get_commitment() / commitment.get_ring_size()
CommitmentGetters(getter) ==
  /\ ffi.commitment # None
  /\ CommitmentKept(Some([getter |-> getter,
                          value |-> IF getter = "get_commitment"
                                    THEN GetCommitment(ffi.commitment.val)
                                    ELSE GetRingSize(ffi.commitment.val)]))
  /\ UNCHANGED <<cacheVars, prover, verifier, signed, verified>>

\* verifier.get_commitment() / vrf_get_commitment(verifier, output)
VerifierGetters(getter) ==
  /\ verifier # None
  /\ ffi' = [ffi EXCEPT !.got =
               Some([getter |-> getter,
                     value |-> IF getter = "get_commitment"
                               THEN GetCommitment(verifier.val)
                               ELSE vrf_get_commitment(verifier.val).val])]
  /\ InstancesKept
  /\ UNCHANGED <<cacheVars, signed, verified>>

\* The signer at a position inside the ring; the Commitment with any ring
\* size up to the largest ring, or with a size no context exists for.
MethodsNext ==
  \/ \E ring \in Rings, secret \in Secrets, idx \in 0..(MaxRingLen - 1) :
       idx < Len(ring) /\ NewProver(ring, secret, idx)
  \/ \E ring \in Rings : NewVerifier(ring)
  \/ \E ring_size \in (0..MaxRingLen) \cup {UnsupportedSize} :
       HoldCommitment(ring_size)
  \/ \E data \in {"a", "nopoint"} : SignRing(data, "x", "r1")
  \/ \E data \in {"a", "nopoint"} : SignIetf(data, "x")
  \/ Forge
  \/ \E data \in {"a", "nopoint"} : VerifyRing(data, "x")
  \/ \E data \in {"a", "nopoint"}, idx \in 0..MaxRingLen :
       VerifyIetf(data, "x", idx)
  \/ \E data \in {"a", "nopoint"} : CommitmentVerify(data, "x")
  \/ \E getter \in {"get_commitment", "get_ring_size"} :
       CommitmentGetters(getter)
  \/ \E getter \in {"get_commitment", "vrf_get_commitment"} :
       VerifierGetters(getter)

MethodsSpec == VrfInit /\ [][MethodsNext]_vars

(* ----------------------------------------------------------------------- *)
\* A method of an instance was called: a signature was produced by the
\* Prover, a verification was answered, or a getter returned.
MethodCalled ==
  \/ signed' # signed /\ signed'.val.by = "prover"
  \/ verified' # verified
  \/ ffi'.got # ffi.got

\* C27: no call of ring_vrf_sign, ietf_vrf_sign, ring_vrf_verify,
\* ietf_vrf_verify, get_commitment, get_ring_size or vrf_get_commitment,
\* successful or failing, changes the Prover (ring, secret, prover index), the
\* Verifier (ring, commitment) or the Commitment (commitment, ring size) it
\* is called on or any other instance; only the context cache may change.
C27_InstancesImmutable ==
  [][MethodCalled =>
       /\ prover' = prover
       /\ verifier' = verifier
       /\ ffi'.commitment = ffi.commitment
       /\ UNCHANGED threadVars]_vars

\* All three instances exist, a signature was made, a verification on one of
\* them failed after its context was built, and a getter has returned.
C27_Witness ==
  /\ prover # None
  /\ verifier # None
  /\ ffi.commitment # None
  /\ signed # None
  /\ signed.val.by = "prover"
  /\ IsOk(signed.val.result)
  /\ verified # None
  /\ ~IsOk(verified.val.result)
  /\ verified.val.path = "miss"
  /\ ffi.got # None
  /\ Len(cache) > 0

(* ----------------------------------------------------------------------- *)
\* Every size a context was constructed for is still cached: nothing has
\* been evicted so far.
NothingEvicted == \A n \in AllSizes : builds[n] > 0 => LruContains(cache, n)

\* C28: with callers asking for the same uncached supported size at the same
\* time, a context for a size is constructed only while the size is not
\* cached, by the caller holding the lock, and is then inserted under that
\* size; a caller that looks the size up while it is cached returns a clone
\* of the cached context and constructs nothing; so while nothing has been
\* evicted no size has been constructed more than once.
C28_ConcurrentMissesBuildOnce ==
  [][/\ \A n \in AllSizes :
          /\ builds'[n] \in {builds[n], builds[n] + 1}
          /\ builds'[n] = builds[n] + 1 =>
               /\ ~LruContains(cache, n)
               /\ LruContains(cache', n)
               /\ lockHolder # NoThread
               /\ arg[lockHolder] = n
               /\ result'[lockHolder] = Ok(cache'[LruIndex(cache', n)].ctx)
     /\ \A u \in Threads :
          (pc[u] = "lookup" /\ LruContains(cache, arg[u]) /\ pc'[u] # pc[u]) =>
               /\ pc'[u] = "idle"
               /\ result'[u] = Ok(cache[LruIndex(cache, arg[u])].ctx)
               /\ builds' = builds
     /\ NothingEvicted' => \A n \in AllSizes : builds'[n] <= 1
    ]_vars

\* Two threads of a fresh process have each made one call for the same
\* uncached size: the context was constructed once, the thread that took the
\* lock second got the cached context, and both hold the same context.
C28_Witness ==
  /\ calls = 2
  /\ \A t \in {1, 2} : pc[t] = "idle" /\ arg[t] = WarmSize + 1
  /\ IsOk(result[1])
  /\ result[1] = result[2]
  /\ builds[WarmSize + 1] = 1
  /\ ~LruContains(cache, 1)
  /\ last.kind = "hit"
  /\ NothingEvicted

(* ------------- every function that signs or verifies, one caller ------- *)
\* The functions of the C interface of ring_vrf/ together with the plain
\* Bandersnatch functions of sign.rs.
CallsNext ==
  \/ BoundaryNext
  \/ SignNext

CallsSpec == VrfInit /\ [][CallsNext]_vars

\* The context cache and its bookkeeping stay as they are.
CacheUntouched == UNCHANGED <<once, cache, builds, used, clock, last, poisoned>>

\* The errors a call returns before it asks for a context.
EarlyErrors ==
  {Err(TypedError("DeserializationError")), Err(TypedError("VrfInputPointError"))}

\* The operation a finished call record is about never asked for a context
\* (the only error of the bandersnatch functions is the unit value).
WithoutContext(rec) ==
  /\ rec.val.path = "none"
  /\ (rec.val.op # "bandersnatch" /\ IsErr(rec.val.result))
       => rec.val.result.err.error # "RingContextError"
  /\ CacheUntouched

\* The outcome of the operation the C function of the step wrapped, where the
\* step went through the C interface; else the outcome in the record.
OperationResult(rec) ==
  IF ffi' # ffi THEN ffi'.call.val.wrapped ELSE rec.val.result

\* C29: ietf_vrf_sign, ietf_vrf_verify and the bandersnatch functions never
\* ask for a context (and never fail with RingContextError), and a
\* ring_vrf_sign or ring_vrf_verify call (of a Verifier or a Commitment) that
\* fails with a deserialization or input-point error has not asked for one;
\* all these calls leave the cached sizes, their recency order and the rest
\* of the cache state unchanged. The cache changes only in a step that
\* completes a ring_context call.
C29_CacheOnlyInRingContext ==
  [][/\ (signed' # signed /\ signed'.val.op \in {"ietf", "bandersnatch"})
          => WithoutContext(signed')
     /\ (verified' # verified /\ verified'.val.op \in {"ietf", "bandersnatch"})
          => WithoutContext(verified')
     /\ (signed' # signed /\ signed'.val.op = "ring"
           /\ OperationResult(signed') \in EarlyErrors)
          => WithoutContext(signed')
     /\ (verified' # verified /\ verified'.val.op \in {"ring", "commitment"}
           /\ OperationResult(verified') \in EarlyErrors)
          => WithoutContext(verified')
     /\ LruKeys(cache') # LruKeys(cache)
          => /\ last' # last
             /\ last'.kind \in {"hit", "miss"}
    ]_vars

\* With contexts cached, a ring verification of made-up bytes has failed
\* with a deserialization error.
C29_Witness ==
  /\ Len(cache) > 0
  /\ signed # None
  /\ signed.val.op = "none"
  /\ verified # None
  /\ verified.val.op = "ring"
  /\ ffi.call # None
  /\ ffi.call.val.wrapped = Err(TypedError("DeserializationError"))
  /\ verified.val.path = "none"

(* ----------------------------------------------------------------------- *)
\* The ring of a handle made from the buffer public_keys has
\* public_keys_len / PUBLIC_KEY_SIZE keys, and every slot whose chunk did not
\* decode holds the padding point of the context for the length of the ring.
RingOfBuffer(ring, public_keys) ==
  /\ Len(ring) = NumKeys(public_keys)
  /\ \A i \in DOMAIN ring :
       IsErr(PublicDeserialize(public_keys[i])) =>
         ring[i] = PublicFrom(PaddingPoint(FromSrs(Len(ring), once.pcs.gen).val))

VerifierHoldsNumKeys ==
  verifier # None => RingOfBuffer(verifier.val.ring, ffi.vnew.val.keys)

\* C30: every non-null handle new_ring_vrf_verifier or new_ring_vrf_prover
\* returned holds a ring of exactly public_keys_len / 32 keys, for every
\* public_keys_len (0 and, in a build without debug assertions, lengths that
\* are no multiple of 32 included), its substituted slots holding the padding
\* point of the context for that ring length.
C30_HandlesHoldNumKeys ==
  /\ VerifierHoldsNumKeys
  /\ prover # None => RingOfBuffer(prover.val.ring, ffi.pnew.val.keys)

====
